---- MODULE Spec2Model ----
(***************************************************************************)
(* Model of the ingredient-to-product resolution pipeline of               *)
(* hemkop-shopper: selectBestProduct and processIngredientDescription      *)
(* (llm.ts), addProductToCart / adjustProductQuantity (main.ts) and        *)
(* extractIngredientsFromJsonLd (jsonldRecipeParser.ts).                   *)
(*                                                                         *)
(* Texts are sequences of one-character strings, so that the regular       *)
(* expressions, trim, split and toLowerCase of the source are computed     *)
(* character by character.  Decimal numbers (parseFloat) are exact         *)
(* fractions [num, den] with den a power of ten.                           *)
(***************************************************************************)
EXTENDS Integers, Sequences, FiniteSets, TLC

(***************************************************************************)
(* Characters and character classes of the JavaScript regular expressions. *)
(***************************************************************************)
Digits == {"0", "1", "2", "3", "4", "5", "6", "7", "8", "9"}

\* \s : white space
Spaces == {" ", "\n", "\t"}

UpperLetters ==
    <<"A", "B", "C", "D", "E", "F", "G", "H", "I", "J", "K", "L", "M", "N",
      "O", "P", "Q", "R", "S", "T", "U", "V", "W", "X", "Y", "Z", "Å", "Ä", "Ö">>

LowerLetters ==
    <<"a", "b", "c", "d", "e", "f", "g", "h", "i", "j", "k", "l", "m", "n",
      "o", "p", "q", "r", "s", "t", "u", "v", "w", "x", "y", "z", "å", "ä", "ö">>

\* \w : ASCII letters, digits and underscore (the Swedish letters are not \w)
WordChars ==
    Digits \cup {"_"}
    \cup {UpperLetters[i] : i \in 1..26} \cup {LowerLetters[i] : i \in 1..26}

IsDigit(c) == c \in Digits

IsSpace(c) == c \in Spaces

IsWordChar(c) == c \in WordChars

\* String.prototype.toLowerCase, one character
ToLowerChar(c) ==
    IF \E i \in DOMAIN UpperLetters : UpperLetters[i] = c
    THEN LowerLetters[CHOOSE i \in DOMAIN UpperLetters : UpperLetters[i] = c]
    ELSE c

\* String.prototype.toLowerCase
ToLowerCase(s) == [i \in 1..Len(s) |-> ToLowerChar(s[i])]

DigitVal(c) ==
    CASE c = "0" -> 0 [] c = "1" -> 1 [] c = "2" -> 2 [] c = "3" -> 3
      [] c = "4" -> 4 [] c = "5" -> 5 [] c = "6" -> 6 [] c = "7" -> 7
      [] c = "8" -> 8 [] c = "9" -> 9

\* parseInt(digits, 10) of a string of decimal digits
RECURSIVE ParseInt(_)
ParseInt(s) ==
    IF s = <<>> THEN 0
    ELSE ParseInt(SubSeq(s, 1, Len(s) - 1)) * 10 + DigitVal(s[Len(s)])

RECURSIVE Pow10(_)
Pow10(k) == IF k = 0 THEN 1 ELSE 10 * Pow10(k - 1)

\* End (exclusive) of the maximal run of digits starting at i: what a greedy
\* \d* consumes from position i
DigitRunEnd(s, i) ==
    CHOOSE j \in i..(Len(s) + 1) :
        /\ \A k \in i..(j - 1) : IsDigit(s[k])
        /\ (j = Len(s) + 1 \/ ~IsDigit(s[j]))

\* End (exclusive) of the maximal run of white space starting at i: what a
\* greedy \s* consumes from position i
SpaceRunEnd(s, i) ==
    CHOOSE j \in i..(Len(s) + 1) :
        /\ \A k \in i..(j - 1) : IsSpace(s[k])
        /\ (j = Len(s) + 1 \/ ~IsSpace(s[j]))

\* Does the literal w occur in s at position i, ignoring case (the /i flag)?
HasPrefixCI(s, i, w) ==
    /\ i + Len(w) - 1 <= Len(s)
    /\ \A k \in 1..Len(w) : ToLowerChar(s[i + k - 1]) = ToLowerChar(w[k])

\* String.prototype.includes
Includes(s, w) ==
    \E i \in 1..(Len(s) - Len(w) + 1) : SubSeq(s, i, i + Len(w) - 1) = w

\* String.prototype.trim
Trim(s) ==
    IF \A i \in 1..Len(s) : IsSpace(s[i]) THEN <<>>
    ELSE LET a == CHOOSE i \in 1..Len(s) :
                      ~IsSpace(s[i]) /\ \A k \in 1..(i - 1) : IsSpace(s[k])
             b == CHOOSE i \in 1..Len(s) :
                      ~IsSpace(s[i]) /\ \A k \in (i + 1)..Len(s) : IsSpace(s[k])
         IN  SubSeq(s, a, b)

\* String.prototype.split('\n')
RECURSIVE SplitLines(_)
SplitLines(s) ==
    IF \A i \in 1..Len(s) : s[i] # "\n" THEN <<s>>
    ELSE LET n == CHOOSE i \in 1..Len(s) :
                      s[i] = "\n" /\ \A k \in 1..(i - 1) : s[k] # "\n"
         IN  <<SubSeq(s, 1, n - 1)>> \o SplitLines(SubSeq(s, n + 1, Len(s)))

\* lines joined by newlines (the text a collaborator sends)
RECURSIVE JoinLines(_)
JoinLines(ls) ==
    IF ls = <<>> THEN <<>>
    ELSE IF Len(ls) = 1 THEN ls[1]
    ELSE ls[1] \o <<"\n">> \o JoinLines(Tail(ls))

\* All sequences over S of length at most n
SeqUpTo(S, n) == UNION {[1..k -> S] : k \in 0..n}

(***************************************************************************)
(* Weight parsing.                                                         *)
(***************************************************************************)
NoMatch == [found |-> FALSE]

\* The alternation (g|gram|kg|kilo) with the /i flag, tried in this order at
\* position m; "" when no alternative matches.
RequirementUnitAt(s, m) ==
    IF HasPrefixCI(s, m, <<"g">>) THEN "g"
    ELSE IF HasPrefixCI(s, m, <<"g", "r", "a", "m">>) THEN "gram"
    ELSE IF HasPrefixCI(s, m, <<"k", "g">>) THEN "kg"
    ELSE IF HasPrefixCI(s, m, <<"k", "i", "l", "o">>) THEN "kilo"
    ELSE ""

\* /(\d+\.?\d*)\s*(g|gram|kg|kilo)/i anchored at position i.  Every piece is
\* greedy; giving back a digit, the point or a blank leaves a digit, a point
\* or a blank where the unit must start, so the greedy split is the only one
\* that can match.
RequirementMatchAt(s, i) ==
    IF ~(i <= Len(s) /\ IsDigit(s[i])) THEN NoMatch
    ELSE LET j == DigitRunEnd(s, i)
             hasPoint == j <= Len(s) /\ s[j] = "."
             k == IF hasPoint THEN DigitRunEnd(s, j + 1) ELSE j
             m == SpaceRunEnd(s, k)
             unit == RequirementUnitAt(s, m)
         IN  IF unit = "" THEN NoMatch
             ELSE [found |-> TRUE,
                   intPart |-> SubSeq(s, i, j - 1),
                   fracPart |-> IF hasPoint THEN SubSeq(s, j + 1, k - 1) ELSE <<>>,
                   unit |-> unit]

\* shoppingListItem.match(/(\d+\.?\d*)\s*(g|gram|kg|kilo)/i): leftmost match
RequirementWeightMatch(s) ==
    IF \E i \in 1..Len(s) : RequirementMatchAt(s, i).found
    THEN RequirementMatchAt(s,
            CHOOSE i \in 1..Len(s) :
                /\ RequirementMatchAt(s, i).found
                /\ \A k \in 1..(i - 1) : ~RequirementMatchAt(s, k).found)
    ELSE NoMatch

\* mutation: only the unit kg is converted to grams
RequestedWeightKiloAsGrams(s) ==
    LET m == RequirementWeightMatch(s)
    IN  IF ~m.found THEN [num |-> 0, den |-> 1]
        ELSE LET n == ParseInt(m.intPart \o m.fracPart)
                 d == Pow10(Len(m.fracPart))
             IN  IF m.unit = "kg"
                 THEN [num |-> n * 1000, den |-> d]
                 ELSE [num |-> n, den |-> d]

\* parseFloat(match[1]), times 1000 for kg and kilo: grams as num/den
RequestedWeight(s) ==
    LET m == RequirementWeightMatch(s)
    IN  IF ~m.found THEN [num |-> 0, den |-> 1]
        ELSE LET n == ParseInt(m.intPart \o m.fracPart)
                 d == Pow10(Len(m.fracPart))
             IN  IF m.unit = "kg" \/ m.unit = "kilo"
                 THEN [num |-> n * 1000, den |-> d]
                 ELSE [num |-> n, den |-> d]

\* The alternation (g|kg) with the /i flag at position m
ProductUnitAt(s, m) ==
    IF HasPrefixCI(s, m, <<"g">>) THEN "g"
    ELSE IF HasPrefixCI(s, m, <<"k", "g">>) THEN "kg"
    ELSE ""

\* /(\d+)\s*(g|kg)/i anchored at position i
ProductMatchAt(s, i) ==
    IF ~(i <= Len(s) /\ IsDigit(s[i])) THEN NoMatch
    ELSE LET j == DigitRunEnd(s, i)
             m == SpaceRunEnd(s, j)
             unit == ProductUnitAt(s, m)
         IN  IF unit = "" THEN NoMatch
             ELSE [found |-> TRUE, digits |-> SubSeq(s, i, j - 1), unit |-> unit]

\* weightText.match(/(\d+)\s*(g|kg)/i) and the conversion to grams; 0 when the
\* display volume is missing or states no weight
ProductWeight(displayVolume) ==
    LET s == displayVolume
    IN  IF \E i \in 1..Len(s) : ProductMatchAt(s, i).found
        THEN LET m == ProductMatchAt(s,
                        CHOOSE i \in 1..Len(s) :
                            /\ ProductMatchAt(s, i).found
                            /\ \A k \in 1..(i - 1) : ~ProductMatchAt(s, k).found)
                 w == ParseInt(m.digits)
             IN  IF m.unit = "kg" THEN w * 1000 ELSE w
        ELSE 0

(***************************************************************************)
(* selectBestProduct (llm.ts).  A product is identified by its position in *)
(* the products array (1-based here); 0 stands for null.                   *)
(***************************************************************************)

\* mutation: the comparator of the ascending sort reversed
AscendingWeightReversed(a, b) == b.weight - a.weight

AscendingWeight(a, b) == a.weight - b.weight

DescendingWeight(a, b) == b.weight - a.weight

\* The comparator handed to sort: (a, b) => a.weight - b.weight when
\* ascending, (a, b) => b.weight - a.weight otherwise
Compare(ascending, a, b) ==
    IF ascending THEN AscendingWeight(a, b) ELSE DescendingWeight(a, b)

\* mutation: a sort that is not stable, an element being placed before the
\* elements that compare equal
RECURSIVE SortByWeightUnstable(_, _)
SortByWeightUnstable(seq, ascending) ==
    IF seq = <<>> THEN <<>>
    ELSE LET sorted == SortByWeightUnstable(SubSeq(seq, 1, Len(seq) - 1), ascending)
             x == seq[Len(seq)]
             before == {i \in 1..Len(sorted) : Compare(ascending, sorted[i], x) >= 0}
             pos == IF before = {} THEN Len(sorted) + 1
                    ELSE CHOOSE i \in before : \A k \in before : i <= k
         IN  SubSeq(sorted, 1, pos - 1) \o <<x>> \o SubSeq(sorted, pos, Len(sorted))

\* Array.prototype.sort with a comparator: stable, an element is placed
\* before the first one that compares greater
RECURSIVE SortByWeight(_, _)
SortByWeight(seq, ascending) ==
    IF seq = <<>> THEN <<>>
    ELSE LET sorted == SortByWeight(SubSeq(seq, 1, Len(seq) - 1), ascending)
             x == seq[Len(seq)]
             before == {i \in 1..Len(sorted) : Compare(ascending, sorted[i], x) > 0}
             pos == IF before = {} THEN Len(sorted) + 1
                    ELSE CHOOSE i \in before : \A k \in before : i <= k
         IN  SubSeq(sorted, 1, pos - 1) \o <<x>> \o SubSeq(sorted, pos, Len(sorted))

\* products.map(product => ({ product, weight }))
ProductWeights(prods) ==
    [i \in 1..Len(prods) |->
        [product |-> i, weight |-> ProductWeight(prods[i].displayVolume)]]

\* p.weight >= requestedWeight, the requested weight being num/den
MeetsRequirement(p, requested) == p.weight * requested.den >= requested.num

\* mutation: the catch block rethrows instead of returning null
SelectionCatchRethrows(cause) ==
    [index |-> 0, method |-> cause, threw |-> TRUE, raised |-> TRUE]

\* What the catch block of selectBestProduct returns: null, nothing rethrown
SelectionCatch(cause) ==
    [index |-> 0, method |-> cause, threw |-> TRUE, raised |-> FALSE]

\* return products[selectedIndex] after logging products[selectedIndex].title
\* (selectedIndex 0-based): reading .title of a missing element is a TypeError,
\* which lands in the catch block
ReturnProduct(prods, selectedIndex, method) ==
    IF selectedIndex + 1 \in 1..Len(prods)
    THEN [index |-> selectedIndex + 1, method |-> method,
          threw |-> FALSE, raised |-> FALSE]
    ELSE SelectionCatch("TypeError")

\* mutation: no product is returned when none meets the requirement
WeightSelectionOnlySufficient(prods, requested) ==
    LET productWeights == ProductWeights(prods)
        validProducts ==
            SelectSeq(productWeights, LAMBDA p : MeetsRequirement(p, requested))
    IN  IF Len(validProducts) > 0
        THEN ReturnProduct(prods,
                 SortByWeight(validProducts, TRUE)[1].product - 1,
                 "DeterministicWeight")
        ELSE [index |-> 0, method |-> "None", threw |-> FALSE, raised |-> FALSE]

\* The weight branch: the lightest product that meets the requirement, else
\* the heaviest product
WeightSelection(prods, requested) ==
    LET productWeights == ProductWeights(prods)
        validProducts ==
            SelectSeq(productWeights, LAMBDA p : MeetsRequirement(p, requested))
    IN  IF Len(validProducts) > 0
        THEN ReturnProduct(prods,
                 SortByWeight(validProducts, TRUE)[1].product - 1,
                 "DeterministicWeight")
        ELSE IF Len(productWeights) > 0
        THEN ReturnProduct(prods,
                 SortByWeight(productWeights, FALSE)[1].product - 1,
                 "DeterministicWeight")
        ELSE SelectionCatch("TypeError")

\* mutation: the upper limit of the range check off by one
ValidIndexOffByOne(selectedIndex, n) == selectedIndex >= 0 /\ selectedIndex <= n

\* selectedIndex >= 0 && selectedIndex < products.length
ValidIndex(selectedIndex, n) == selectedIndex >= 0 /\ selectedIndex < n

\* text.match(/(\d+)/): the first maximal run of digits
FirstDigits(s) ==
    IF \E i \in 1..Len(s) : IsDigit(s[i])
    THEN LET i == CHOOSE i \in 1..Len(s) :
                      IsDigit(s[i]) /\ \A k \in 1..(i - 1) : ~IsDigit(s[k])
         IN  [found |-> TRUE, digits |-> SubSeq(s, i, DigitRunEnd(s, i) - 1)]
    ELSE NoMatch

\* responseText.split('\n').filter(line => line.trim().length > 0)
NonEmptyLines(responseText) ==
    SelectSeq(SplitLines(responseText), LAMBDA line : Len(Trim(line)) > 0)

\* ....pop()?.match(/(\d+)/)
LastLineMatch(responseText) ==
    LET lines == NonEmptyLines(responseText)
    IN  IF lines = <<>> THEN NoMatch ELSE FirstDigits(lines[Len(lines)])

\* /Product\s+(\d+)/i anchored at position i
ProductPhraseAt(s, i) ==
    IF ~HasPrefixCI(s, i, <<"P", "r", "o", "d", "u", "c", "t">>) THEN NoMatch
    ELSE LET a == i + 7
             b == SpaceRunEnd(s, a)
         IN  IF b > a /\ b <= Len(s) /\ IsDigit(s[b])
             THEN [found |-> TRUE, digits |-> SubSeq(s, b, DigitRunEnd(s, b) - 1)]
             ELSE NoMatch

\* /Product\s+(\d+)/i.exec(responseText): leftmost match
ProductPhraseMatch(s) ==
    IF \E i \in 1..Len(s) : ProductPhraseAt(s, i).found
    THEN ProductPhraseAt(s,
            CHOOSE i \in 1..Len(s) :
                /\ ProductPhraseAt(s, i).found
                /\ \A k \in 1..(i - 1) : ~ProductPhraseAt(s, k).found)
    ELSE NoMatch

\* /^[1-9]$/.exec(responseText)
SingleDigitMatch(s) ==
    IF Len(s) = 1 /\ IsDigit(s[1]) /\ s[1] # "0"
    THEN [found |-> TRUE, digits |-> s]
    ELSE NoMatch

\* \b before position i (between s[i-1] and s[i])
WordBoundary(s, i) ==
    LET left == i > 1 /\ IsWordChar(s[i - 1])
        right == i <= Len(s) /\ IsWordChar(s[i])
    IN  left # right

\* /\b(\d+)\b/ anchored at position i: giving back digits leaves a digit
\* behind the run, which is no word boundary
AnyNumberAt(s, i) ==
    IF ~(i <= Len(s) /\ IsDigit(s[i]) /\ WordBoundary(s, i)) THEN NoMatch
    ELSE LET j == DigitRunEnd(s, i)
         IN  IF WordBoundary(s, j)
             THEN [found |-> TRUE, digits |-> SubSeq(s, i, j - 1)]
             ELSE NoMatch

\* /\b(\d+)\b/.exec(responseText): leftmost match
AnyNumberMatch(s) ==
    IF \E i \in 1..Len(s) : AnyNumberAt(s, i).found
    THEN AnyNumberAt(s,
            CHOOSE i \in 1..Len(s) :
                /\ AnyNumberAt(s, i).found
                /\ \A k \in 1..(i - 1) : ~AnyNumberAt(s, k).found)
    ELSE NoMatch

\* parseInt(match[1], 10) - 1 when the strategy matched and the index is
\* valid; -1 otherwise (the strategy yields nothing)
StrategyIndex(match, n) ==
    IF match.found /\ ValidIndex(ParseInt(match.digits) - 1, n)
    THEN ParseInt(match.digits) - 1
    ELSE -1

\* mutation: no first-product fallback
FallbackSelectionNull(prods) ==
    [index |-> 0, method |-> "None", threw |-> FALSE, raised |-> FALSE]

\* The tail of selectBestProduct: no strategy gave a valid index
FallbackSelection(prods) ==
    IF Len(prods) > 0
    THEN ReturnProduct(prods, 0, "FallbackFirst")
    ELSE [index |-> 0, method |-> "None", threw |-> FALSE, raised |-> FALSE]

\* mutation: the "Product N" phrase consulted before the last line
ParseResponsePhraseFirst(prods, text) ==
    LET responseText == Trim(text)
        n == Len(prods)
        lastLine == StrategyIndex(LastLineMatch(responseText), n)
        phrase == StrategyIndex(ProductPhraseMatch(responseText), n)
        single == StrategyIndex(SingleDigitMatch(responseText), n)
        anyNumber == StrategyIndex(AnyNumberMatch(responseText), n)
    IN  IF phrase # -1 THEN ReturnProduct(prods, phrase, "ProductPhrase")
        ELSE IF lastLine # -1 THEN ReturnProduct(prods, lastLine, "LastLine")
        ELSE IF single # -1 THEN ReturnProduct(prods, single, "SingleDigit")
        ELSE IF anyNumber # -1 THEN ReturnProduct(prods, anyNumber, "AnyNumber")
        ELSE FallbackSelection(prods)

\* The extraction chain applied to response.message.content
ParseResponse(prods, text) ==
    LET responseText == Trim(text)
        n == Len(prods)
        lastLine == StrategyIndex(LastLineMatch(responseText), n)
        phrase == StrategyIndex(ProductPhraseMatch(responseText), n)
        single == StrategyIndex(SingleDigitMatch(responseText), n)
        anyNumber == StrategyIndex(AnyNumberMatch(responseText), n)
    IN  IF lastLine # -1 THEN ReturnProduct(prods, lastLine, "LastLine")
        ELSE IF phrase # -1 THEN ReturnProduct(prods, phrase, "ProductPhrase")
        ELSE IF single # -1 THEN ReturnProduct(prods, single, "SingleDigit")
        ELSE IF anyNumber # -1 THEN ReturnProduct(prods, anyNumber, "AnyNumber")
        ELSE FallbackSelection(prods)

(***************************************************************************)
(* Bounded inputs.                                                         *)
(***************************************************************************)
MaxProducts == 3

MaxLines == 2

\* displayVolume texts of scraped products (<<>>: no volume scraped)
DisplayVolumes ==
    {<<>>, <<"3", "0", "0", "g">>, <<"5", "0", "0", " ", "g">>, <<"1", ".", "5", " ", "K", "G">>}

\* shopping list items that state a weight: number, blank, unit
WeightNumbers == {<<"0">>, <<"2">>, <<"2", ".", "5">>, <<"0", ".", "4">>, <<"0", ".", "3">>}

WeightUnits == {<<"g">>, <<"k", "g">>, <<"G", "r", "a", "m">>, <<"k", "i", "l", "o">>}

WeightItems ==
    {n \o b \o u : n \in WeightNumbers, b \in {<<>>, <<" ">>}, u \in WeightUnits}

\* shopping list items that state no weight
PlainItems == {<<"b", "u", "r", "k">>, <<"3", " ", "s", "t">>}

ShoppingListItems == WeightItems \cup PlainItems

\* lines a text-generation response is made of
ResponseLines ==
    {<<>>, <<"3">>, <<"o", "k">>, <<"P", "r", "o", "d", "u", "c", "t", " ", "1">>,
     <<"1", "0", " ", "o", "r", " ", "2">>}

\* response.message.content of a successful chat call
ResponseContents == {JoinLines(ls) : ls \in SeqUpTo(ResponseLines, MaxLines)}

Products == [displayVolume : DisplayVolumes, quantity : {0}]

(***************************************************************************)
(* State.                                                                  *)
(***************************************************************************)
VARIABLES
    pc,                \* position of the running function
    products,          \* the Product[] scraped for the current item
    shoppingListItem,  \* the requirement text of the current item
    chat,              \* the ollama.chat call: "none", "pending", "resolved",
                       \* "rejected" (transport error), "malformed" (no message)
    content,           \* response.message.content of a resolved call
    selection,         \* what selectBestProduct returned, and how
    llmCalls,          \* number of ollama.chat calls started
    added,             \* what processSearchResults returns: a product, 0 for
                       \* undefined
    plan,              \* locals of adjustProductQuantity
    clickIndex,        \* the loop variable i of adjustProductQuantity
    plusClicks,        \* "increase quantity" clicks requested from the page
    siteQuantity,      \* units of the product the shop's cart really holds
    jsonLdData,        \* the JSON-LD blocks page.evaluate returned
    browser,           \* the recipe parser's browser: "null", "open", "closed"
    rawIngredients,    \* what extractIngredients returned (the local ingredients)
    recipeData,        \* what findRecipeData returned (the local recipeData)
    extraction,        \* outcome of extractIngredientsFromJsonLd
    ingredient,        \* the argument of processIngredientDescription
    normalized,        \* what processIngredientDescription returned
    texts,             \* the texts handed to the two weight parsers
    weights,           \* what the parsers made of them
    debugEnabled,      \* logger.isDebugEnabled()
    debugTask,         \* the button-logging helper that was called without await
    recipeUrl,         \* getRecipeUrlFromCommandLine(): TRUE when a URL was given
    shoppingList,      \* the shopping list of the run
    origins,           \* per entry of shoppingList, the text it was made from
    listSource,        \* where the list came from: "default", "jsonld", "fallback"
    extractorCalls,    \* the extractors called so far, in order
    queue,             \* the ingredients still to be normalized
    caller,            \* who awaits processIngredientDescription
    itemIndex,         \* the loop variable of shopForGroceries (0-based)
    processed,         \* the item indexes the loop has taken up, in order
    searchTerm,        \* what extractSearchTerm returned for the current item
    cartItems,         \* the products pushed to cartItems: per entry the item
                       \* index, the product and its quantity
    degraded,          \* the item indexes during which the collaborator failed
    runError           \* what the catch block of shopForGroceries caught

selectVars == <<products, shoppingListItem, chat, content, selection, llmCalls>>

cartVars == <<added, plan, clickIndex, plusClicks, siteQuantity>>

recipeVars == <<jsonLdData, browser, rawIngredients, recipeData, extraction>>

normalizeVars == <<ingredient, normalized>>

parseVars == <<texts, weights>>

debugVars == <<debugEnabled, debugTask>>

runVars == <<recipeUrl, shoppingList, origins, listSource, extractorCalls, queue,
             caller, itemIndex, processed, searchTerm, cartItems, degraded, runError>>

vars == <<pc, selectVars, cartVars, recipeVars, normalizeVars,
          parseVars, debugVars, runVars>>

NoSelection ==
    [index |-> 0, method |-> "Pending", threw |-> FALSE, raised |-> FALSE]

NoPlan ==
    [located |-> FALSE, unitWeight |-> 0, requiredWeight |-> [num |-> 0, den |-> 1],
     optimalQuantity |-> 0, clicksNeeded |-> 0]

CartIdle ==
    /\ added = 0
    /\ plan = NoPlan
    /\ clickIndex = 0
    /\ plusClicks = 0
    /\ siteQuantity = 0

NoExtraction ==
    [value |-> <<>>, stage |-> "pending", caught |-> FALSE, raised |-> FALSE]

\* findRecipeData has found nothing (null)
NoRecipe == [found |-> FALSE, threw |-> FALSE]

RecipeIdle ==
    /\ jsonLdData = <<>>
    /\ browser = "null"
    /\ rawIngredients = <<>>
    /\ recipeData = NoRecipe
    /\ extraction = NoExtraction

NotNormalized == [value |-> <<>>, done |-> FALSE, raised |-> FALSE]

NormalizeIdle ==
    /\ ingredient = <<>>
    /\ normalized = NotNormalized

ParseIdle ==
    /\ texts = <<>>
    /\ weights = <<>>

NoTask == [status |-> "none", helper |-> "none", counted |-> FALSE, remaining |-> 0]

DebugIdle ==
    /\ debugEnabled = FALSE
    /\ debugTask = NoTask

RunIdle ==
    /\ recipeUrl = FALSE
    /\ shoppingList = <<>>
    /\ origins = <<>>
    /\ listSource = "none"
    /\ extractorCalls = <<>>
    /\ queue = <<>>
    /\ caller = "none"
    /\ itemIndex = 0
    /\ processed = <<>>
    /\ searchTerm = <<>>
    /\ cartItems = <<>>
    /\ degraded = {}
    /\ runError = "none"

(***************************************************************************)
(* selectBestProduct, llm.ts lines 10-184.                                 *)
(***************************************************************************)

\* mutation: the weight branch sorts the products array itself
SelectByWeightSortsInput ==
    /\ pc = "selectBestProduct"
    /\ RequirementWeightMatch(shoppingListItem).found
    /\ selection' = WeightSelection(products, RequestedWeight(shoppingListItem))
    /\ products' =
           LET sorted == SortByWeight(ProductWeights(products), TRUE)
           IN  [i \in 1..Len(products) |-> products[sorted[i].product]]
    /\ pc' = "selected"
    /\ UNCHANGED <<shoppingListItem, chat, content, llmCalls, cartVars,
                   recipeVars, normalizeVars, parseVars, debugVars, runVars>>

\* Lines 11-69: a requirement that states a weight is decided without the
\* collaborator.
SelectByWeight ==
    /\ pc = "selectBestProduct"
    /\ RequirementWeightMatch(shoppingListItem).found
    /\ selection' = WeightSelection(products, RequestedWeight(shoppingListItem))
    /\ pc' = "selected"
    /\ UNCHANGED <<products, shoppingListItem, chat, content, llmCalls, cartVars,
                   recipeVars, normalizeVars,
                   parseVars, debugVars, runVars>>

\* mutation: the collaborator is asked whatever the requirement states
SendChatWithoutWeightCheck ==
    /\ pc = "selectBestProduct"
    /\ chat' = "pending"
    /\ llmCalls' = llmCalls + 1
    /\ pc' = "awaitChat"
    /\ UNCHANGED <<products, shoppingListItem, content, selection, cartVars,
                   recipeVars, normalizeVars, parseVars, debugVars, runVars>>

\* Lines 71-125: otherwise the prompt is built and ollama.chat is awaited.
SendChat ==
    /\ pc = "selectBestProduct"
    /\ ~RequirementWeightMatch(shoppingListItem).found
    /\ chat' = "pending"
    /\ llmCalls' = llmCalls + 1
    /\ pc' = "awaitChat"
    /\ UNCHANGED <<products, shoppingListItem, content, selection, cartVars,
                   recipeVars, normalizeVars,
                   parseVars, debugVars, runVars>>

\* Lines 127-179: the call resolves with a message; its text is parsed.
ChatResolves(text) ==
    /\ pc = "awaitChat"
    /\ chat' = "resolved"
    /\ content' = text
    /\ selection' = ParseResponse(products, text)
    /\ pc' = "selected"
    /\ UNCHANGED <<products, shoppingListItem, llmCalls, cartVars,
                   recipeVars, normalizeVars,
                   parseVars, debugVars, runVars>>

\* Lines 180-183: the call rejects (transport error); the catch block runs.
ChatRejects ==
    /\ pc = "awaitChat"
    /\ chat' = "rejected"
    /\ selection' = SelectionCatch("CollaboratorError")
    /\ pc' = "selected"
    /\ UNCHANGED <<products, shoppingListItem, content, llmCalls, cartVars,
                   recipeVars, normalizeVars,
                   parseVars, debugVars, runVars>>

\* Lines 127, 180-183: the call resolves without a message, so that reading
\* response.message.content throws; the catch block runs.
ChatMalformed ==
    /\ pc = "awaitChat"
    /\ chat' = "malformed"
    /\ selection' = SelectionCatch("CollaboratorError")
    /\ pc' = "selected"
    /\ UNCHANGED <<products, shoppingListItem, content, llmCalls, cartVars,
                   recipeVars, normalizeVars,
                   parseVars, debugVars, runVars>>

SelectBestProduct ==
    \/ SelectByWeight
    \/ SendChat
    \/ \E text \in ResponseContents : ChatResolves(text)
    \/ ChatRejects
    \/ ChatMalformed

(***************************************************************************)
(* extractIngredientsFromJsonLd (jsonldRecipeParser.ts).  A JSON value is  *)
(* a record: kind "object", "array" or "null"; the @type of an object is   *)
(* absent, a string or an array of strings; the fields recipeIngredient    *)
(* and ingredients are absent, a string or an array of texts; props are    *)
(* the object-valued properties in key order.                              *)
(***************************************************************************)
\* config.recipeParser.excludeIngredients
ExcludeIngredients ==
    <<<<"s", "a", "l", "t">>, <<"p", "e", "p", "p", "a", "r">>,
      <<"v", "a", "t", "t", "e", "n">>, <<"o", "l", "j", "a">>,
      <<"s", "m", "ö", "r">>>>

AbsentType == [array |-> FALSE, values |-> <<>>]

StringType(v) == [array |-> FALSE, values |-> <<v>>]

ArrayType(vs) == [array |-> TRUE, values |-> vs]

AbsentField == [kind |-> "absent", items |-> <<>>]

ArrayField(items) == [kind |-> "array", items |-> items]

StringField(text) == [kind |-> "string", items |-> <<text>>]

JsonObject(type, name, recipeIngredient, ingredients, props) ==
    [kind |-> "object", type |-> type, name |-> name,
     recipeIngredient |-> recipeIngredient, ingredients |-> ingredients,
     props |-> props]

JsonNull == [kind |-> "null"]

JsonArray == [kind |-> "array"]

\* block['@type'] === 'Recipe'
TypeIsRecipe(value) ==
    /\ value.kind = "object"
    /\ ~value.type.array
    /\ value.type.values = <<"Recipe">>

\* Array.isArray(block['@type']) && block['@type'].includes('Recipe')
TypeIncludesRecipe(value) ==
    /\ value.kind = "object"
    /\ value.type.array
    /\ \E i \in 1..Len(value.type.values) : value.type.values[i] = "Recipe"

\* the predicate handed to jsonLdBlocks.find
IsRecipeBlock(block) == TypeIsRecipe(block) \/ TypeIncludesRecipe(block)

\* the inner loop of findRecipeData: the first object-valued property of the
\* block whose @type is 'Recipe'
NestedRecipe(block) ==
    IF block.kind # "object" THEN NoRecipe
    ELSE LET hits == {k \in 1..Len(block.props) : TypeIsRecipe(block.props[k])}
         IN  IF hits = {} THEN NoRecipe
             ELSE [found |-> TRUE, threw |-> FALSE,
                   recipe |-> block.props[CHOOSE k \in hits : \A h \in hits : k <= h]]

\* mutation: the nested objects are searched before the top-level blocks
FindRecipeDataNestedFirst(jsonLdBlocks) ==
    LET n == Len(jsonLdBlocks)
        top == {i \in 1..n : IsRecipeBlock(jsonLdBlocks[i])}
        first == IF top = {} THEN n + 1 ELSE CHOOSE i \in top : \A h \in top : i <= h
        nested == {i \in 1..n : NestedRecipe(jsonLdBlocks[i]).found}
    IN  IF \E i \in 1..n : i < first /\ jsonLdBlocks[i].kind = "null"
        THEN [found |-> FALSE, threw |-> TRUE]
        ELSE IF nested # {}
        THEN NestedRecipe(jsonLdBlocks[CHOOSE i \in nested : \A h \in nested : i <= h])
        ELSE IF top # {}
        THEN [found |-> TRUE, threw |-> FALSE, recipe |-> jsonLdBlocks[first]]
        ELSE NoRecipe

\* findRecipeData: the first top-level Recipe block, else the first nested
\* one.  find reads block['@type'] of every block up to the first hit; on a
\* null block that read is a TypeError.
FindRecipeData(jsonLdBlocks) ==
    LET n == Len(jsonLdBlocks)
        top == {i \in 1..n : IsRecipeBlock(jsonLdBlocks[i])}
        first == IF top = {} THEN n + 1 ELSE CHOOSE i \in top : \A h \in top : i <= h
        nested == {i \in 1..n : NestedRecipe(jsonLdBlocks[i]).found}
    IN  IF \E i \in 1..n : i < first /\ jsonLdBlocks[i].kind = "null"
        THEN [found |-> FALSE, threw |-> TRUE]
        ELSE IF top # {}
        THEN [found |-> TRUE, threw |-> FALSE, recipe |-> jsonLdBlocks[first]]
        ELSE IF nested # {}
        THEN NestedRecipe(jsonLdBlocks[CHOOSE i \in nested : \A h \in nested : i <= h])
        ELSE NoRecipe

\* mutation: an empty recipeIngredient list gives way to ingredients
ExtractIngredientsEmptyFallsBack(recipe) ==
    IF recipe.recipeIngredient.kind = "array" /\ recipe.recipeIngredient.items # <<>>
    THEN recipe.recipeIngredient.items
    ELSE IF recipe.ingredients.kind = "array"
    THEN recipe.ingredients.items
    ELSE <<>>

\* extractIngredients: recipeIngredient when it is an array, else ingredients
\* when that is an array, else []
ExtractIngredients(recipe) ==
    IF recipe.recipeIngredient.kind = "array"
    THEN recipe.recipeIngredient.items
    ELSE IF recipe.ingredients.kind = "array"
    THEN recipe.ingredients.items
    ELSE <<>>

\* mutation: the ingredient compared without lower-casing it
ShouldExcludeIngredientCaseSensitive(text) ==
    \E k \in 1..Len(ExcludeIngredients) :
        Includes(text, ToLowerCase(ExcludeIngredients[k]))

\* shouldExcludeIngredient
ShouldExcludeIngredient(text) ==
    LET lowerIngredient == ToLowerCase(text)
    IN  \E k \in 1..Len(ExcludeIngredients) :
            Includes(lowerIngredient, ToLowerCase(ExcludeIngredients[k]))

\* ingredients.filter(i => i && i.length > 0).filter(i => !shouldExcludeIngredient(i))
FilterIngredients(ingredients) ==
    SelectSeq(SelectSeq(ingredients, LAMBDA i : Len(i) > 0),
              LAMBDA i : ~ShouldExcludeIngredient(i))

\* Lines 44-77: from the blocks to the value the inner try block returns
\* (or the exception it throws)
ExtractFromBlocks(jsonLdBlocks) ==
    IF Len(jsonLdBlocks) = 0
    THEN [value |-> <<>>, threw |-> FALSE, raw |-> <<>>, stage |-> "noData",
          recipeData |-> NoRecipe]
    ELSE LET found == FindRecipeData(jsonLdBlocks)
         IN  IF found.threw
             THEN [value |-> <<>>, threw |-> TRUE, raw |-> <<>>, stage |-> "threw",
                   recipeData |-> found]
             ELSE IF ~found.found
             THEN [value |-> <<>>, threw |-> FALSE, raw |-> <<>>, stage |-> "noRecipe",
                   recipeData |-> found]
             ELSE LET ingredients == ExtractIngredients(found.recipe)
                  IN  IF Len(ingredients) = 0
                      THEN [value |-> <<>>, threw |-> FALSE, raw |-> <<>>,
                            stage |-> "noIngredients", recipeData |-> found]
                      ELSE [value |-> FilterIngredients(ingredients), threw |-> FALSE,
                            raw |-> ingredients, stage |-> "filtered",
                            recipeData |-> found]

MaxIngredients == 2

\* ingredient texts of a recipe (<<>>: an empty string)
IngredientTexts ==
    {<<>>, <<"m", "j", "ö", "l">>, <<"2", " ", "ä", "g", "g">>, <<"S", "a", "l", "t">>,
     <<"1", " ", "t", "s", "k", " ", "h", "a", "v", "s", "S", "A", "L", "T">>,
     <<"S", "M", "Ö", "R">>}

IngredientLists == SeqUpTo(IngredientTexts, MaxIngredients)

OtherBlock == JsonObject(StringType("WebPage"), "page", AbsentField, AbsentField, <<>>)

\* the JSON-LD blocks of a recipe page
Documents ==
    {<<>>, <<OtherBlock>>, <<JsonNull, OtherBlock>>,
     <<JsonObject(StringType("Recipe"), "bare", AbsentField,
                  StringField(<<"m", "j", "ö", "l">>), <<>>)>>,
     <<JsonObject(AbsentType, "graph", AbsentField, AbsentField, <<JsonArray>>)>>}
    \cup {<<JsonObject(StringType("Recipe"), "top", ArrayField(l), AbsentField, <<>>)>> :
             l \in IngredientLists}
    \cup {<<OtherBlock,
            JsonObject(ArrayType(<<"Thing", "Recipe">>), "multi", ArrayField(l),
                       ArrayField(<<<<"o", "s", "t">>>>), <<>>)>> : l \in IngredientLists}
    \cup {<<JsonObject(StringType("Recipe"), "alt", StringField(<<"m", "j", "ö", "l">>),
                       ArrayField(l), <<>>)>> : l \in IngredientLists}
    \cup {<<JsonObject(StringType("WebPage"), "outer", AbsentField, AbsentField,
                       <<JsonArray,
                         JsonObject(StringType("Recipe"), "nested", ArrayField(l),
                                    AbsentField, <<>>)>>)>> : l \in IngredientLists}

\* response.message.content of a successful normalization call
SearchTermContents ==
    {a \o w \o b :
        a \in {<<>>, <<" ">>, <<"\n">>},
        w \in {<<>>, <<"ä", "g", "g">>, <<"r", "ö", "d", " ", "l", "ö", "k">>},
        b \in {<<>>, <<" ">>, <<"\n">>, <<" ", "\n">>}}


\* mutation: the catch block passes the error on
ExtractionCatchRethrows(stage) ==
    [value |-> <<>>, stage |-> stage, caught |-> TRUE, raised |-> TRUE]

\* Lines 84-95: the catch block returns []
ExtractionCatch(stage) ==
    [value |-> <<>>, stage |-> stage, caught |-> TRUE, raised |-> FALSE]

\* Lines 25-27: chromium.launch resolves
LaunchResolves ==
    /\ pc = "extractIngredientsFromJsonLd"
    /\ browser' = "open"
    /\ pc' = "newContext"
    /\ UNCHANGED <<selectVars, cartVars, jsonLdData, rawIngredients, recipeData, extraction,
                   normalizeVars,
                   parseVars, debugVars, runVars>>

\* Lines 25-27, 84-95: chromium.launch rejects; browser is still null
LaunchRejects ==
    /\ pc = "extractIngredientsFromJsonLd"
    /\ extraction' = ExtractionCatch("launch")
    /\ pc' = "extracted"
    /\ UNCHANGED <<selectVars, cartVars, jsonLdData, browser, rawIngredients, recipeData,
                   normalizeVars,
                   parseVars, debugVars, runVars>>

\* Lines 29-30: the context and the page are created
ContextResolves ==
    /\ pc = "newContext"
    /\ pc' = "goto"
    /\ UNCHANGED <<selectVars, cartVars, recipeVars, normalizeVars,
                   parseVars, debugVars, runVars>>

\* Lines 29-30, 84-86: newContext or newPage rejects, outside the inner try
\* block; the catch block is next, with the browser open
ContextRejects ==
    /\ pc = "newContext"
    /\ extraction' = ExtractionCatch("context")
    /\ pc' = "catchClose"
    /\ UNCHANGED <<selectVars, cartVars, jsonLdData, browser, rawIngredients, recipeData,
                   normalizeVars,
                   parseVars, debugVars, runVars>>

\* Lines 35-77: the page loads, page.evaluate returns the blocks, and the
\* inner try block computes its result (or throws); the finally block is next
PageEvaluated(blocks) ==
    /\ pc = "goto"
    /\ jsonLdData' = blocks
    /\ LET r == ExtractFromBlocks(blocks)
       IN  /\ rawIngredients' = r.raw
           /\ recipeData' = r.recipeData
           /\ extraction' = [value |-> r.value, stage |-> r.stage,
                             caught |-> FALSE, raised |-> FALSE]
    /\ pc' = "finally"
    /\ UNCHANGED <<selectVars, cartVars, browser, normalizeVars,
                   parseVars, debugVars, runVars>>

\* Lines 35-42: page.goto or page.evaluate rejects; the finally block is next
PageRejects ==
    /\ pc = "goto"
    /\ extraction' = [value |-> <<>>, stage |-> "threw",
                      caught |-> FALSE, raised |-> FALSE]
    /\ pc' = "finally"
    /\ UNCHANGED <<selectVars, cartVars, jsonLdData, browser, rawIngredients, recipeData,
                   normalizeVars,
                   parseVars, debugVars, runVars>>

\* Lines 78-83: browser.close() resolves in the finally block; the pending
\* value is returned, a pending exception goes to the catch block
CloseResolves ==
    /\ pc = "finally"
    /\ browser' = "closed"
    /\ IF extraction.stage = "threw"
       THEN extraction' = ExtractionCatch("threw") /\ pc' = "catchClose"
       ELSE extraction' = extraction /\ pc' = "extracted"
    /\ UNCHANGED <<selectVars, cartVars, jsonLdData, rawIngredients, recipeData, normalizeVars,
                   parseVars, debugVars, runVars>>

\* Lines 78-83: browser.close() rejects in the finally block; its exception
\* replaces the pending value and goes to the catch block
CloseRejects ==
    /\ pc = "finally"
    /\ extraction' = ExtractionCatch("close")
    /\ pc' = "catchClose"
    /\ UNCHANGED <<selectVars, cartVars, jsonLdData, browser, rawIngredients, recipeData,
                   normalizeVars,
                   parseVars, debugVars, runVars>>

\* Lines 86-94: the catch block closes the browser once more, ignoring a
\* failure, and returns []
CatchCloseDone(closed) ==
    /\ pc = "catchClose"
    /\ browser' = IF closed THEN "closed" ELSE browser
    /\ pc' = "extracted"
    /\ UNCHANGED <<selectVars, cartVars, jsonLdData, rawIngredients, recipeData, extraction,
                   normalizeVars,
                   parseVars, debugVars, runVars>>

ExtractIngredientsFromJsonLd ==
    \/ LaunchResolves
    \/ LaunchRejects
    \/ ContextResolves
    \/ ContextRejects
    \/ \E blocks \in Documents : PageEvaluated(blocks)
    \/ PageRejects
    \/ CloseResolves
    \/ CloseRejects
    \/ \E closed \in BOOLEAN : CatchCloseDone(closed)

InitJsonLd ==
    /\ pc = "extractIngredientsFromJsonLd"
    /\ products = <<>>
    /\ shoppingListItem = <<>>
    /\ chat = "none"
    /\ content = <<>>
    /\ selection = NoSelection
    /\ llmCalls = 0
    /\ CartIdle
    /\ RecipeIdle
    /\ NormalizeIdle
    /\ ParseIdle
    /\ DebugIdle
    /\ RunIdle

NextJsonLd == ExtractIngredientsFromJsonLd

SpecJsonLd == InitJsonLd /\ [][NextJsonLd]_vars

(***************************************************************************)
(* processIngredientDescription (llm.ts lines 191-225).                    *)
(***************************************************************************)
\* mutation: the response text returned as received
SearchTermUntrimmed(text) == text

\* Line 218: response.message.content.trim()
SearchTerm(text) == Trim(text)

\* mutation: the catch block passes the error on
NormalizeCatchRethrows(text) == [value |-> text, done |-> TRUE, raised |-> TRUE]

\* Lines 221-225: the catch block returns the ingredient itself
NormalizeCatch(text) == [value |-> text, done |-> TRUE, raised |-> FALSE]

\* Lines 193-216: the prompt is built and ollama.chat is awaited
NormalizeSend ==
    /\ pc = "processIngredientDescription"
    /\ chat' = "pending"
    /\ llmCalls' = llmCalls + 1
    /\ pc' = "awaitNormalize"
    /\ UNCHANGED <<products, shoppingListItem, content, selection, cartVars,
                   recipeVars, normalizeVars,
                   parseVars, debugVars, runVars>>

\* Lines 218-220: the call resolves; the trimmed text is the search term
NormalizeResolves(text) ==
    /\ pc = "awaitNormalize"
    /\ chat' = "resolved"
    /\ content' = text
    /\ normalized' = [value |-> SearchTerm(text), done |-> TRUE, raised |-> FALSE]
    /\ pc' = "normalized"
    /\ UNCHANGED <<products, shoppingListItem, selection, llmCalls, cartVars,
                   recipeVars, ingredient,
                   parseVars, debugVars, runVars>>

\* Lines 221-225: the call rejects
NormalizeRejects ==
    /\ pc = "awaitNormalize"
    /\ chat' = "rejected"
    /\ normalized' = NormalizeCatch(ingredient)
    /\ pc' = "normalized"
    /\ UNCHANGED <<products, shoppingListItem, content, selection, llmCalls,
                   cartVars, recipeVars, ingredient,
                   parseVars, debugVars, runVars>>

\* Lines 218, 221-225: the call resolves without a message
NormalizeMalformed ==
    /\ pc = "awaitNormalize"
    /\ chat' = "malformed"
    /\ normalized' = NormalizeCatch(ingredient)
    /\ pc' = "normalized"
    /\ UNCHANGED <<products, shoppingListItem, content, selection, llmCalls,
                   cartVars, recipeVars, ingredient,
                   parseVars, debugVars, runVars>>

ProcessIngredientDescription ==
    \/ NormalizeSend
    \/ \E text \in SearchTermContents : NormalizeResolves(text)
    \/ NormalizeRejects
    \/ NormalizeMalformed

InitNormalize ==
    /\ pc = "processIngredientDescription"
    /\ products = <<>>
    /\ shoppingListItem = <<>>
    /\ chat = "none"
    /\ content = <<>>
    /\ selection = NoSelection
    /\ llmCalls = 0
    /\ CartIdle
    /\ RecipeIdle
    /\ ingredient \in IngredientTexts
    /\ normalized = NotNormalized
    /\ ParseIdle
    /\ DebugIdle
    /\ RunIdle

NextNormalize == ProcessIngredientDescription

SpecNormalize == InitNormalize /\ [][NextNormalize]_vars

(***************************************************************************)
(* The two weight parsers applied to the same texts: the requirement       *)
(* parser of selectBestProduct and extractWeightInformation, and the       *)
(* parser of a product's display volume.                                   *)
(***************************************************************************)
MaxKilos == 12

\* the decimal numeral of a natural number
RECURSIVE ToDigits(_)
ToDigits(n) ==
    LET d == <<"0", "1", "2", "3", "4", "5", "6", "7", "8", "9">>
    IN  IF n < 10 THEN <<d[n + 1]>> ELSE ToDigits(n \div 10) \o <<d[(n % 10) + 1]>>

Gaps == {<<>>, <<" ">>}

KiloUnits == {<<"k", "g">>, <<"K", "G">>, <<"k", "i", "l", "o">>, <<"K", "i", "l", "o">>}

GramUnits == {<<"g">>, <<"G">>, <<"g", "r", "a", "m">>, <<"G", "R", "A", "M">>}

Prefixes == {<<>>, <<"c", "a", " ">>}

\* n kilograms and 1000 * n grams, stated in the same surroundings
UnitPair(n, before, gapK, kilo, gapG, gram) ==
    <<before \o ToDigits(n) \o gapK \o kilo, before \o ToDigits(1000 * n) \o gapG \o gram>>

UnitPairs ==
    {UnitPair(n, before, gapK, kilo, gapG, gram) :
        n \in 0..MaxKilos, before \in Prefixes, gapK \in Gaps, kilo \in KiloUnits,
        gapG \in Gaps, gram \in GramUnits}

\* texts read both as a requirement and as a display volume
VolumeTexts ==
    {<<>>, <<"5", "0", "0", "g">>, <<"5", "0", "0", " ", "g">>, <<"1", ".", "5", " ", "k", "g">>, <<"1", ".", "5", "k", "g">>,
     <<"2", " ", "g", "r", "a", "m">>, <<"2", " ", "k", "i", "l", "o">>, <<"0", ".", "5", " ", "K", "G">>, <<"b", "u", "r", "k">>,
     <<"2", " ", "g", "u", "r", "k", "o", "r">>}

ParseInputs == UnitPairs \cup {<<v>> : v \in VolumeTexts}

\* llm.ts lines 16-29 and 34-49 (main.ts 534-558): every text is parsed as a
\* requirement and as a display volume
ParseTexts ==
    /\ pc = "parseWeight"
    /\ weights' = [i \in 1..Len(texts) |->
                      [required |-> RequestedWeight(texts[i]),
                       unit |-> ProductWeight(texts[i])]]
    /\ pc' = "parsed"
    /\ UNCHANGED <<selectVars, cartVars, recipeVars, normalizeVars, texts,
                   debugVars, runVars>>

InitParse ==
    /\ pc = "parseWeight"
    /\ products = <<>>
    /\ shoppingListItem = <<>>
    /\ chat = "none"
    /\ content = <<>>
    /\ selection = NoSelection
    /\ llmCalls = 0
    /\ CartIdle
    /\ RecipeIdle
    /\ NormalizeIdle
    /\ texts \in ParseInputs
    /\ weights = <<>>
    /\ DebugIdle
    /\ RunIdle

NextParse == ParseTexts

SpecParse == InitParse /\ [][NextParse]_vars

(***************************************************************************)
(* processSearchResults, addProductToCart and adjustProductQuantity        *)
(* (main.ts).                                                              *)
(***************************************************************************)
\* mutation: the quotient rounded down
CeilAsFloor(n, d) == n \div d

\* Math.ceil(n / d) for integers n >= 0, d > 0
Ceil(n, d) == (n + d - 1) \div d

\* extractWeightInformation: the unit weight from the product's display
\* volume, the required weight from the shopping list item
ExtractWeightInformation(product, item) ==
    [unitWeight |-> ProductWeight(product.displayVolume),
     requiredWeight |-> RequestedWeight(item)]

\* mutation: the buy click is not counted, one plus click per unit
QuantityPlanCountsNoBuyClick(product, item) ==
    LET w == ExtractWeightInformation(product, item)
        u == w.unitWeight
        r == w.requiredWeight
    IN  IF u = 0 \/ r.num = 0
        THEN [located |-> TRUE, unitWeight |-> u, requiredWeight |-> r,
              optimalQuantity |-> 1, clicksNeeded |-> 0]
        ELSE LET optimalQuantity == Ceil(r.num, r.den * u)
             IN  [located |-> TRUE, unitWeight |-> u, requiredWeight |-> r,
                  optimalQuantity |-> optimalQuantity,
                  clicksNeeded |-> optimalQuantity]

\* Lines 497-508 of adjustProductQuantity: no adjustment when a weight is
\* unknown, else Math.ceil(requiredWeight / unitWeight) and one click less
QuantityPlan(product, item) ==
    LET w == ExtractWeightInformation(product, item)
        u == w.unitWeight
        r == w.requiredWeight
    IN  IF u = 0 \/ r.num = 0
        THEN [located |-> TRUE, unitWeight |-> u, requiredWeight |-> r,
              optimalQuantity |-> 1, clicksNeeded |-> 0]
        ELSE LET optimalQuantity == Ceil(r.num, r.den * u)
             IN  [located |-> TRUE, unitWeight |-> u, requiredWeight |-> r,
                  optimalQuantity |-> optimalQuantity,
                  clicksNeeded |-> optimalQuantity - 1]

\* Lines 229-233 of processSearchResults: the products scraped by
\* findProductsOnPage, each with quantity 0; nothing more for an empty page
FindProductsOnPage(prods) ==
    /\ pc = "findProductsOnPage"
    /\ products' = prods
    /\ pc' = IF Len(prods) = 0 THEN "itemDone" ELSE "selectBestProduct"
    /\ UNCHANGED <<shoppingListItem, chat, content, selection, llmCalls, cartVars,
                   recipeVars, normalizeVars,
                   parseVars, debugVars, runVars>>

\* Lines 239-250: selectBestProduct has returned (its locals are gone); null
\* ends the item, a product goes to addProductToCart; an exception would
\* pass through processSearchResults, which catches nothing
SelectionReturned ==
    /\ pc = "selected"
    /\ pc' = IF selection.raised THEN "aborted"
             ELSE IF selection.index = 0 THEN "itemDone" ELSE "addProductToCart"
    /\ chat' = "none"
    /\ content' = <<>>
    /\ UNCHANGED <<products, shoppingListItem, selection, llmCalls, cartVars,
                   recipeVars, normalizeVars,
                   parseVars, debugVars, runVars>>

\* A button-logging helper called without await (lines 398 and 484): with
\* debug logging off it returns at once; with it on, it runs up to its first
\* page operation, the count of the buttons, and goes on by itself
StartHelper(helper) ==
    IF debugEnabled
    THEN [status |-> "awaiting", helper |-> helper, counted |-> FALSE, remaining |-> 0]
    ELSE debugTask

\* addProductToCart lines 386-400 and the alternative method lines 429-440:
\* no container and no parent, or (inContainer) a container without buy
\* button, where logAllButtonsInContainer is called: false is returned
BuyButtonMissing(inContainer) ==
    /\ pc = "addProductToCart"
    /\ debugTask' = IF inContainer THEN StartHelper("logAllButtonsInContainer")
                    ELSE debugTask
    /\ pc' = "itemDone"
    /\ UNCHANGED <<selectVars, cartVars, recipeVars, normalizeVars,
                   parseVars, debugEnabled, runVars>>

\* mutation: the buy click marks every product of the page as bought
BuyClickedMarksAll(effective) ==
    /\ pc = "addProductToCart"
    /\ products' = [i \in 1..Len(products) |-> [products[i] EXCEPT !.quantity = 1]]
    /\ siteQuantity' = IF effective THEN 1 ELSE 0
    /\ debugTask' = StartHelper("debugProductButtons")
    /\ pc' = "adjustProductQuantity"
    /\ UNCHANGED <<shoppingListItem, chat, content, selection, llmCalls,
                   added, plan, clickIndex, plusClicks,
                   recipeVars, normalizeVars,
                   parseVars, debugEnabled, runVars>>

\* Lines 402-412 (443-451 in the alternative method): the buy button is
\* clicked and product.quantity set to 1, whatever the click did in the shop;
\* addProductToCart returns true and adjustProductQuantity (lines 480-490)
\* calls debugProductButtons without await before it awaits the count of the
\* plus buttons
BuyClicked(effective) ==
    /\ pc = "addProductToCart"
    /\ products' = [products EXCEPT ![selection.index].quantity = 1]
    /\ siteQuantity' = IF effective THEN 1 ELSE 0
    /\ debugTask' = StartHelper("debugProductButtons")
    /\ pc' = "adjustProductQuantity"
    /\ UNCHANGED <<shoppingListItem, chat, content, selection, llmCalls,
                   added, plan, clickIndex, plusClicks,
                   recipeVars, normalizeVars,
                   parseVars, debugEnabled, runVars>>

\* Line 403: the click rejects; nothing in processSearchResults catches it
BuyClickThrows ==
    /\ pc = "addProductToCart"
    /\ pc' = "aborted"
    /\ UNCHANGED <<selectVars, cartVars,
                   recipeVars, normalizeVars,
                   parseVars, debugVars, runVars>>

\* adjustProductQuantity lines 487-493: no plus button, nothing is adjusted
PlusButtonMissing ==
    /\ pc = "adjustProductQuantity"
    /\ plan' = NoPlan
    /\ pc' = "adjusted"
    /\ UNCHANGED <<selectVars, added, clickIndex, plusClicks, siteQuantity,
                   recipeVars, normalizeVars,
                   parseVars, debugVars, runVars>>

\* Lines 495-513: the plus button is there; the weights are read and the
\* number of clicks is computed
PlusButtonFound ==
    /\ pc = "adjustProductQuantity"
    /\ plan' = QuantityPlan(products[selection.index], shoppingListItem)
    /\ clickIndex' = 0
    /\ pc' = IF plan'.clicksNeeded > 0 THEN "plusLoop" ELSE "adjusted"
    /\ UNCHANGED <<selectVars, added, plusClicks, siteQuantity,
                   recipeVars, normalizeVars,
                   parseVars, debugVars, runVars>>

\* mutation: product.quantity follows only the clicks seen to take effect
PlusClickedWhenConfirmed(effective) ==
    /\ pc = "plusLoop"
    /\ clickIndex < plan.clicksNeeded
    /\ plusClicks' = plusClicks + 1
    /\ siteQuantity' = IF effective THEN siteQuantity + 1 ELSE siteQuantity
    /\ products' = [products EXCEPT
                       ![selection.index].quantity =
                           IF effective THEN products[selection.index].quantity + 1
                           ELSE products[selection.index].quantity]
    /\ clickIndex' = clickIndex + 1
    /\ pc' = IF clickIndex' < plan.clicksNeeded THEN "plusLoop" ELSE "adjusted"
    /\ UNCHANGED <<shoppingListItem, chat, content, selection, llmCalls, added, plan,
                   recipeVars, normalizeVars,
                   parseVars, debugVars, runVars>>

\* Lines 513-518: one round of the loop; the click resolves and
\* product.quantity is incremented without looking at the page
PlusClicked(effective) ==
    /\ pc = "plusLoop"
    /\ clickIndex < plan.clicksNeeded
    /\ plusClicks' = plusClicks + 1
    /\ siteQuantity' = IF effective THEN siteQuantity + 1 ELSE siteQuantity
    /\ products' = [products EXCEPT
                       ![selection.index].quantity = products[selection.index].quantity + 1]
    /\ clickIndex' = clickIndex + 1
    /\ pc' = IF clickIndex' < plan.clicksNeeded THEN "plusLoop" ELSE "adjusted"
    /\ UNCHANGED <<shoppingListItem, chat, content, selection, llmCalls, added, plan,
                   recipeVars, normalizeVars,
                   parseVars, debugVars, runVars>>

\* Line 515: the click rejects; the loop is left by the exception
PlusClickThrows ==
    /\ pc = "plusLoop"
    /\ clickIndex < plan.clicksNeeded
    /\ plusClicks' = plusClicks + 1
    /\ pc' = "aborted"
    /\ UNCHANGED <<selectVars, added, plan, clickIndex, siteQuantity,
                   recipeVars, normalizeVars,
                   parseVars, debugVars, runVars>>

\* Lines 257-263: processSearchResults returns the selected product
ProductAdded ==
    /\ pc = "adjusted"
    /\ added' = selection.index
    /\ pc' = "itemDone"
    /\ UNCHANGED <<selectVars, plan, clickIndex, plusClicks, siteQuantity,
                   recipeVars, normalizeVars,
                   parseVars, debugVars, runVars>>

AddProductToCart ==
    \/ \E inContainer \in BOOLEAN : BuyButtonMissing(inContainer)
    \/ \E effective \in BOOLEAN : BuyClicked(effective)
    \/ BuyClickThrows

AdjustProductQuantity ==
    \/ PlusButtonMissing
    \/ PlusButtonFound
    \/ \E effective \in BOOLEAN : PlusClicked(effective)
    \/ PlusClickThrows

ProcessSearchResults ==
    \/ \E prods \in SeqUpTo(Products, MaxProducts) : FindProductsOnPage(prods)
    \/ SelectBestProduct
    \/ SelectionReturned
    \/ AddProductToCart
    \/ AdjustProductQuantity
    \/ ProductAdded

(***************************************************************************)
(* The button-logging helpers debugProductButtons (main.ts 567-583) and    *)
(* logAllButtonsInContainer (458-472), which run beside the caller that    *)
(* did not await them.                                                     *)
(***************************************************************************)
MaxButtons == 1

\* page operations per button: textContent, getAttribute twice and isVisible
\* in debugProductButtons; textContent and getAttribute in
\* logAllButtonsInContainer
OperationsPerButton(helper) == IF helper = "debugProductButtons" THEN 4 ELSE 2

\* the outstanding page operation of the helper resolves: the count gives the
\* number of buttons, and the helper issues its next operation or ends
HelperOperationResolves(buttons) ==
    /\ debugTask.status = "awaiting"
    /\ LET remaining == IF debugTask.counted THEN debugTask.remaining - 1
                        ELSE buttons * OperationsPerButton(debugTask.helper)
       IN  debugTask' = [debugTask EXCEPT
                            !.counted = TRUE,
                            !.remaining = remaining,
                            !.status = IF remaining = 0 THEN "done" ELSE "awaiting"]
    /\ UNCHANGED <<pc, selectVars, cartVars, recipeVars, normalizeVars, parseVars,
                   debugEnabled, runVars>>

\* the outstanding page operation of the helper rejects: the helper's promise
\* is rejected and nobody handles it
HelperOperationRejects ==
    /\ debugTask.status = "awaiting"
    /\ debugTask' = [debugTask EXCEPT !.status = "rejected"]
    /\ UNCHANGED <<pc, selectVars, cartVars, recipeVars, normalizeVars, parseVars,
                   debugEnabled, runVars>>

ButtonLoggingHelper ==
    \/ \E buttons \in 0..MaxButtons : HelperOperationResolves(buttons)
    \/ HelperOperationRejects

\* the products of a result page in a run
RunProducts ==
    {<<>>,
     <<[displayVolume |-> <<"5", "0", "0", " ", "g">>, quantity |-> 0]>>,
     <<[displayVolume |-> <<"3", "0", "0", "g">>, quantity |-> 0],
       [displayVolume |-> <<"1", ".", "5", " ", "K", "G">>, quantity |-> 0]>>}

\* the collaborator's answers to a selection request in a run
RunResponses == {<<"2">>, <<"o", "k">>}

\* the items of a debugging session
DebugItems == {<<"b", "u", "r", "k">>, <<"2", "k", "g">>}

InitDebug ==
    /\ pc = "findProductsOnPage"
    /\ products = <<>>
    /\ shoppingListItem \in DebugItems
    /\ chat = "none"
    /\ content = <<>>
    /\ selection = NoSelection
    /\ llmCalls = 0
    /\ CartIdle
    /\ RecipeIdle
    /\ NormalizeIdle
    /\ ParseIdle
    /\ debugEnabled \in BOOLEAN
    /\ debugTask = NoTask
    /\ RunIdle

NextDebug ==
    \/ \E prods \in RunProducts : FindProductsOnPage(prods)
    \/ SelectByWeight
    \/ SendChat
    \/ \E text \in RunResponses : ChatResolves(text)
    \/ ChatRejects
    \/ ChatMalformed
    \/ SelectionReturned
    \/ AddProductToCart
    \/ AdjustProductQuantity
    \/ ProductAdded
    \/ ButtonLoggingHelper

SpecDebug == InitDebug /\ [][NextDebug]_vars

(***************************************************************************)
(* shopForGroceries (main.ts lines 11-119): the shopping list is built,    *)
(* then every item is searched, selected and put in the cart.              *)
(***************************************************************************)
\* config.shoppingList
ConfigShoppingList ==
    <<<<"2", ".", "5", " ", "k", "g", " ", "b", "a", "n", "a", "n", "e", "r">>,
      <<"e", "n", " ", "b", "u", "r", "k", " ", "j", "o", "r", "d", "n", "ö", "t", "s", "s", "m", "ö", "r">>,
      <<"1", "k", "g", " ", "h", "a", "v", "r", "e", "g", "r", "y", "n">>,
      <<"3", " ", "b", "u", "r", "k", "a", "r", " ", "k", "r", "o", "s", "s", "a", "d", "e", " ", "t", "o", "m", "a", "t", "e", "r">>>>

\* Lines 36-41 and 45-50: the first ingredient of a non-empty list goes to
\* processIngredientDescription
StartNormalizing(list, source) ==
    /\ queue' = list
    /\ listSource' = source
    /\ ingredient' = Head(list)
    /\ normalized' = NotNormalized
    /\ caller' = "shopForGroceries"
    /\ pc' = "processIngredientDescription"
    /\ UNCHANGED <<shoppingList, origins>>

\* Lines 33 and 54: shoppingList = config.shoppingList
UseDefaultList ==
    /\ shoppingList' = ConfigShoppingList
    /\ origins' = ConfigShoppingList
    /\ listSource' = "default"
    /\ pc' = "launchBrowser"
    /\ UNCHANGED <<queue, caller, normalizeVars>>

\* Lines 16-23 and 52-55: with a recipe URL the JSON-LD extractor is called,
\* without one the default list is used
StartRun(url) ==
    /\ pc = "shopForGroceries"
    /\ recipeUrl' = url
    /\ IF url
       THEN /\ pc' = "extractIngredientsFromJsonLd"
            /\ UNCHANGED <<shoppingList, origins, listSource, queue, caller,
                           normalizeVars>>
       ELSE UseDefaultList
    /\ UNCHANGED <<selectVars, cartVars, recipeVars, parseVars, debugVars,
                   extractorCalls, itemIndex, processed, searchTerm, cartItems,
                   degraded, runError>>

\* Lines 23-28 and 43-45: extractIngredientsFromJsonLd has returned (its
\* locals are gone); an empty result calls the fallback extractor
JsonLdReturned ==
    /\ pc = "extracted"
    /\ extractorCalls' =
           Append(extractorCalls, [extractor |-> "jsonld", result |-> extraction.value])
    /\ jsonLdData' = <<>>
    /\ browser' = "null"
    /\ rawIngredients' = <<>>
    /\ recipeData' = NoRecipe
    /\ extraction' = NoExtraction
    /\ IF extraction.raised
       THEN /\ runError' = "extractor"
            /\ pc' = "runCaught"
            /\ UNCHANGED <<shoppingList, origins, listSource, queue, caller,
                           normalizeVars>>
       ELSE /\ runError' = runError
            /\ IF Len(extraction.value) = 0
               THEN /\ pc' = "extractIngredientsFromUrl"
                    /\ UNCHANGED <<shoppingList, origins, listSource, queue, caller,
                                   normalizeVars>>
               ELSE StartNormalizing(extraction.value, "jsonld")
    /\ UNCHANGED <<selectVars, cartVars, parseVars, debugVars, recipeUrl, itemIndex,
                   processed, searchTerm, cartItems, degraded>>

\* mutation: the fallback extractor's list is dropped for the default list
FallbackReturnedIgnored(list) ==
    /\ pc = "extractIngredientsFromUrl"
    /\ extractorCalls' =
           Append(extractorCalls, [extractor |-> "fallback", result |-> list])
    /\ UseDefaultList
    /\ UNCHANGED <<selectVars, cartVars, recipeVars, parseVars, debugVars, recipeUrl,
                   itemIndex, processed, searchTerm, cartItems, degraded, runError>>

\* Lines 28-36: extractIngredientsFromUrl (recipeParser) returns its list; an
\* empty one leaves the default list
FallbackReturned(list) ==
    /\ pc = "extractIngredientsFromUrl"
    /\ extractorCalls' =
           Append(extractorCalls, [extractor |-> "fallback", result |-> list])
    /\ IF Len(list) = 0 THEN UseDefaultList ELSE StartNormalizing(list, "fallback")
    /\ UNCHANGED <<selectVars, cartVars, recipeVars, parseVars, debugVars, recipeUrl,
                   itemIndex, processed, searchTerm, cartItems, degraded, runError>>

\* Lines 38-40 and 47-49: processIngredientDescription has returned; the
\* search term is pushed on the shopping list and the next ingredient, if
\* any, is processed.  An exception would go to the catch block of line 116.
IngredientNormalized ==
    /\ pc = "normalized"
    /\ caller = "shopForGroceries"
    /\ chat' = "none"
    /\ content' = <<>>
    /\ normalized' = NotNormalized
    /\ IF normalized.raised
       THEN /\ runError' = "collaborator"
            /\ pc' = "runCaught"
            /\ UNCHANGED <<shoppingList, origins, queue, ingredient>>
       ELSE /\ runError' = runError
            /\ shoppingList' = Append(shoppingList, normalized.value)
            /\ origins' = Append(origins, ingredient)
            /\ queue' = Tail(queue)
            /\ IF Len(queue) > 1
               THEN ingredient' = queue[2] /\ pc' = "processIngredientDescription"
               ELSE ingredient' = <<>> /\ pc' = "launchBrowser"
    /\ UNCHANGED <<products, shoppingListItem, selection, llmCalls, cartVars,
                   recipeVars, parseVars, debugVars, recipeUrl, listSource,
                   extractorCalls, caller, itemIndex, processed, searchTerm,
                   cartItems, degraded>>

\* Lines 57-80: the shop's browser is launched, the start page loaded and the
\* cookie dialog handled
BrowserLaunched ==
    /\ pc = "launchBrowser"
    /\ pc' = "itemLoop"
    /\ UNCHANGED <<selectVars, cartVars, recipeVars, normalizeVars, parseVars,
                   debugVars, runVars>>

\* Lines 60-77, 116-118: one of these page operations rejects
BrowserLaunchThrows ==
    /\ pc = "launchBrowser"
    /\ runError' = "page"
    /\ pc' = "runCaught"
    /\ UNCHANGED <<selectVars, cartVars, recipeVars, normalizeVars, parseVars,
                   debugVars, recipeUrl, shoppingList, origins, listSource,
                   extractorCalls, queue, caller, itemIndex, processed, searchTerm,
                   cartItems, degraded>>

\* Lines 83-88 and 159-162: the next item is taken up and extractSearchTerm
\* hands it to processIngredientDescription
ItemTaken ==
    /\ pc = "itemLoop"
    /\ itemIndex < Len(shoppingList)
    /\ shoppingListItem' = shoppingList[itemIndex + 1]
    /\ processed' = Append(processed, itemIndex)
    /\ ingredient' = shoppingList[itemIndex + 1]
    /\ normalized' = NotNormalized
    /\ caller' = "extractSearchTerm"
    /\ pc' = "processIngredientDescription"
    /\ UNCHANGED <<products, chat, content, selection, llmCalls, cartVars, recipeVars,
                   parseVars, debugVars, recipeUrl, shoppingList, origins, listSource,
                   extractorCalls, queue, itemIndex, searchTerm, cartItems, degraded,
                   runError>>

\* Lines 83, 105-114: the list is exhausted; the cart is logged and the
\* browser closed
RunFinished ==
    /\ pc = "itemLoop"
    /\ itemIndex >= Len(shoppingList)
    /\ pc' = "finished"
    /\ UNCHANGED <<selectVars, cartVars, recipeVars, normalizeVars, parseVars,
                   debugVars, runVars>>

\* Lines 159-169 and 88: extractSearchTerm returns what
\* processIngredientDescription returned, or the item itself when that threw
SearchTermExtracted ==
    /\ pc = "normalized"
    /\ caller = "extractSearchTerm"
    /\ searchTerm' = IF normalized.raised THEN shoppingListItem ELSE normalized.value
    /\ degraded' = IF chat \in {"rejected", "malformed"}
                   THEN degraded \cup {itemIndex} ELSE degraded
    /\ chat' = "none"
    /\ content' = <<>>
    /\ ingredient' = <<>>
    /\ normalized' = NotNormalized
    /\ caller' = "none"
    /\ pc' = "searchForProduct"
    /\ UNCHANGED <<products, shoppingListItem, selection, llmCalls, cartVars,
                   recipeVars, parseVars, debugVars, recipeUrl, shoppingList, origins,
                   listSource, extractorCalls, queue, itemIndex, processed, cartItems,
                   runError>>

\* Lines 91 and 177-220: the search term is typed and the result page loads
SearchDone ==
    /\ pc = "searchForProduct"
    /\ searchTerm' = <<>>
    /\ pc' = "findProductsOnPage"
    /\ UNCHANGED <<selectVars, cartVars, recipeVars, normalizeVars, parseVars,
                   debugVars, recipeUrl, shoppingList, origins, listSource,
                   extractorCalls, queue, caller, itemIndex, processed, cartItems,
                   degraded, runError>>

\* Lines 177-220, 116-118: a page operation of the search rejects
SearchThrows ==
    /\ pc = "searchForProduct"
    /\ runError' = "page"
    /\ pc' = "runCaught"
    /\ UNCHANGED <<selectVars, cartVars, recipeVars, normalizeVars, parseVars,
                   debugVars, recipeUrl, shoppingList, origins, listSource,
                   extractorCalls, queue, caller, itemIndex, processed, searchTerm,
                   cartItems, degraded>>

\* mutation: the selected product is pushed whether or not it was added
ItemReturnedPushesSelected ==
    /\ pc = "itemDone"
    /\ cartItems' = IF selection.index # 0
                    THEN Append(cartItems, [item |-> itemIndex, product |-> selection.index,
                                            quantity |-> products[selection.index].quantity])
                    ELSE cartItems
    /\ degraded' = IF selection.method = "CollaboratorError"
                   THEN degraded \cup {itemIndex} ELSE degraded
    /\ itemIndex' = itemIndex + 1
    /\ products' = <<>>
    /\ shoppingListItem' = <<>>
    /\ selection' = NoSelection
    /\ added' = 0
    /\ plan' = NoPlan
    /\ clickIndex' = 0
    /\ plusClicks' = 0
    /\ siteQuantity' = 0
    /\ pc' = "itemLoop"
    /\ UNCHANGED <<chat, content, llmCalls, recipeVars, normalizeVars, parseVars,
                   debugVars, recipeUrl, shoppingList, origins, listSource,
                   extractorCalls, queue, caller, processed, searchTerm, runError>>

\* Lines 94-103: processSearchResults has returned; a product that was added
\* is pushed on cartItems and the loop goes on (a failure of the collaborator
\* inside selectBestProduct is noted for the item)
ItemReturned ==
    /\ pc = "itemDone"
    /\ cartItems' = IF added # 0
                    THEN Append(cartItems, [item |-> itemIndex, product |-> added,
                                            quantity |-> products[added].quantity])
                    ELSE cartItems
    /\ degraded' = IF selection.method = "CollaboratorError"
                   THEN degraded \cup {itemIndex} ELSE degraded
    /\ itemIndex' = itemIndex + 1
    /\ products' = <<>>
    /\ shoppingListItem' = <<>>
    /\ selection' = NoSelection
    /\ added' = 0
    /\ plan' = NoPlan
    /\ clickIndex' = 0
    /\ plusClicks' = 0
    /\ siteQuantity' = 0
    /\ pc' = "itemLoop"
    /\ UNCHANGED <<chat, content, llmCalls, recipeVars, normalizeVars, parseVars,
                   debugVars, recipeUrl, shoppingList, origins, listSource,
                   extractorCalls, queue, caller, processed, searchTerm, runError>>

\* Lines 94, 116-118: processSearchResults threw; the catch block of
\* shopForGroceries ends the run
ItemThrows ==
    /\ pc = "aborted"
    /\ runError' = IF selection.raised THEN "collaborator" ELSE "page"
    /\ pc' = "runCaught"
    /\ UNCHANGED <<selectVars, cartVars, recipeVars, normalizeVars, parseVars,
                   debugVars, recipeUrl, shoppingList, origins, listSource,
                   extractorCalls, queue, caller, itemIndex, processed, searchTerm,
                   cartItems, degraded>>

\* the recipe pages of a run
RunDocuments ==
    {<<>>, <<OtherBlock>>,
     <<JsonObject(StringType("Recipe"), "top",
                  ArrayField(<<<<"5", "0", "0", "g", " ", "v", "e", "t", "e", "m", "j", "ö", "l">>>>),
                  AbsentField, <<>>)>>,
     <<JsonObject(StringType("Recipe"), "top",
                  ArrayField(<<<<"2", " ", "ä", "g", "g">>, <<"S", "a", "l", "t">>>>),
                  AbsentField, <<>>)>>}

\* what the fallback extractor returns in a run
FallbackLists ==
    {<<>>,
     <<<<"1", " ", "k", "g", " ", "p", "o", "t", "a", "t", "i", "s">>,
       <<"2", " ", "ä", "g", "g">>>>}

\* the collaborator's answers to a normalization request in a run
RunSearchTerms ==
    {<<" ", "v", "e", "t", "e", "m", "j", "ö", "l", "\n">>, <<"ä", "g", "g">>}

ShopForGroceries ==
    \/ \E url \in BOOLEAN : StartRun(url)
    \/ LaunchResolves
    \/ LaunchRejects
    \/ ContextResolves
    \/ ContextRejects
    \/ \E blocks \in RunDocuments : PageEvaluated(blocks)
    \/ PageRejects
    \/ CloseResolves
    \/ CloseRejects
    \/ \E closed \in BOOLEAN : CatchCloseDone(closed)
    \/ JsonLdReturned
    \/ \E list \in FallbackLists : FallbackReturned(list)
    \/ NormalizeSend
    \/ \E text \in RunSearchTerms : NormalizeResolves(text)
    \/ NormalizeRejects
    \/ NormalizeMalformed
    \/ IngredientNormalized
    \/ BrowserLaunched
    \/ BrowserLaunchThrows
    \/ ItemTaken
    \/ RunFinished
    \/ SearchTermExtracted
    \/ SearchDone
    \/ SearchThrows
    \/ \E prods \in RunProducts : FindProductsOnPage(prods)
    \/ SelectByWeight
    \/ SendChat
    \/ \E text \in RunResponses : ChatResolves(text)
    \/ ChatRejects
    \/ ChatMalformed
    \/ SelectionReturned
    \/ AddProductToCart
    \/ AdjustProductQuantity
    \/ ProductAdded
    \/ ItemReturned
    \/ ItemThrows

InitRun ==
    /\ pc = "shopForGroceries"
    /\ products = <<>>
    /\ shoppingListItem = <<>>
    /\ chat = "none"
    /\ content = <<>>
    /\ selection = NoSelection
    /\ llmCalls = 0
    /\ CartIdle
    /\ RecipeIdle
    /\ NormalizeIdle
    /\ ParseIdle
    /\ DebugIdle
    /\ RunIdle

NextRun == ShopForGroceries

SpecRun == InitRun /\ [][NextRun]_vars

(***************************************************************************)
(* One shopping list item processed by processSearchResults.               *)
(***************************************************************************)
InitItem ==
    /\ pc = "findProductsOnPage"
    /\ products = <<>>
    /\ shoppingListItem \in ShoppingListItems
    /\ chat = "none"
    /\ content = <<>>
    /\ selection = NoSelection
    /\ llmCalls = 0
    /\ CartIdle
    /\ RecipeIdle
    /\ NormalizeIdle
    /\ ParseIdle
    /\ DebugIdle
    /\ RunIdle

NextItem == ProcessSearchResults

SpecItem == InitItem /\ [][NextItem]_vars

(***************************************************************************)
(* selectBestProduct called on any product list, the empty one included.   *)
(***************************************************************************)
InitSelect ==
    /\ pc = "selectBestProduct"
    /\ products \in SeqUpTo(Products, MaxProducts)
    /\ shoppingListItem \in ShoppingListItems
    /\ chat = "none"
    /\ content = <<>>
    /\ selection = NoSelection
    /\ llmCalls = 0
    /\ CartIdle
    /\ RecipeIdle
    /\ NormalizeIdle
    /\ ParseIdle
    /\ DebugIdle
    /\ RunIdle

NextSelect == SelectBestProduct

SpecSelect == InitSelect /\ [][NextSelect]_vars

(***************************************************************************)
(* Properties of selectBestProduct.                                        *)
(***************************************************************************)
Returned == selection.method # "Pending"

Requested == RequestedWeight(shoppingListItem)

WeightOf(i) == ProductWeight(products[i].displayVolume)

Weights == [i \in 1..Len(products) |-> WeightOf(i)]

\* w >= R for R = r.num / r.den
AtLeast(w, r) == w * r.den >= r.num

WeightPath == Returned /\ RequirementWeightMatch(shoppingListItem).found

\* C1: with a non-empty product list and a requirement weight R > 0 the
\* returned product weighs the minimum of the weights >= R when there is such
\* a weight, and the maximum of all weights otherwise.
C1_MinSufficientElseMax ==
    (WeightPath /\ Len(products) > 0) =>
        LET r == Requested
            w == Weights
            chosen == selection.index
        IN  r.num > 0 =>
                /\ chosen \in 1..Len(products)
                /\ IF \E i \in 1..Len(products) : AtLeast(w[i], r)
                   THEN /\ AtLeast(w[chosen], r)
                        /\ \A i \in 1..Len(products) :
                               AtLeast(w[i], r) => w[chosen] <= w[i]
                   ELSE \A i \in 1..Len(products) : w[i] <= w[chosen]

\* a lighter insufficient, the chosen sufficient and a heavier sufficient
\* product side by side
C1_Witness ==
    /\ WeightPath
    /\ selection.index \in 1..Len(products)
    /\ LET r == Requested
           w == Weights
       IN  /\ r.num > 0
           /\ \E i, j \in 1..Len(products) :
                  /\ ~AtLeast(w[i], r)
                  /\ w[i] > 0
                  /\ AtLeast(w[j], r)
                  /\ w[j] > w[selection.index]
                  /\ j < selection.index

CollaboratorFailed == Returned /\ chat \in {"rejected", "malformed"}

Parsed == Returned /\ chat = "resolved"

ResponseText == Trim(content)

\* the number a strategy extracted (0 when it extracted none)
Extracted(match) == IF match.found THEN ParseInt(match.digits) ELSE 0

OutOfRange(match) == match.found /\ Extracted(match) \notin 1..Len(products)

\* C3: parsing a response never throws and never selects outside
\* 1..|products|; a strategy whose number is out of range selects nothing.
C3_ParseNeverOutOfRange ==
    Parsed =>
        /\ ~selection.threw
        /\ ~selection.raised
        /\ selection.index \in 0..Len(products)
        /\ (OutOfRange(LastLineMatch(ResponseText)) => selection.method # "LastLine")
        /\ (OutOfRange(ProductPhraseMatch(ResponseText))
                => selection.method # "ProductPhrase")
        /\ (OutOfRange(AnyNumberMatch(ResponseText)) => selection.method # "AnyNumber")

\* the last line names product |products| + 1 and the phrase strategy selects
C3_Witness ==
    /\ Parsed
    /\ Extracted(LastLineMatch(ResponseText)) = Len(products) + 1
    /\ selection.method = "ProductPhrase"
    /\ selection.index = 1

\* the last non-empty line of the response, trimmed (<<>> when there is none)
LastLine ==
    LET lines == NonEmptyLines(ResponseText)
    IN  IF lines = <<>> THEN <<>> ELSE Trim(lines[Len(lines)])

LastLineIsNumber ==
    LastLine # <<>> /\ \A i \in 1..Len(LastLine) : IsDigit(LastLine[i])

\* C4: the strategies are consulted in the order last line, "Product N",
\* single digit, any integer, a later one only when the earlier ones gave no
\* valid index; a last line that is a number N in 1..|products| selects
\* product N whatever else the text holds.
C4_LastLineFirst ==
    Parsed =>
        LET n == Len(products)
            lastLine == StrategyIndex(LastLineMatch(ResponseText), n)
            phrase == StrategyIndex(ProductPhraseMatch(ResponseText), n)
            single == StrategyIndex(SingleDigitMatch(ResponseText), n)
        IN  /\ (LastLineIsNumber /\ ParseInt(LastLine) \in 1..n) =>
                   /\ selection.index = ParseInt(LastLine)
                   /\ selection.method = "LastLine"
            /\ selection.method = "ProductPhrase" => lastLine = -1
            /\ selection.method = "SingleDigit" => lastLine = -1 /\ phrase = -1
            /\ selection.method = "AnyNumber" =>
                   lastLine = -1 /\ phrase = -1 /\ single = -1

\* "Product 1" on the first line, the number 3 on the last: product 3
C4_Witness ==
    /\ Parsed
    /\ LastLineIsNumber
    /\ ParseInt(LastLine) = 3
    /\ Extracted(ProductPhraseMatch(ResponseText)) = 1
    /\ selection.index = 3

\* C5: after a successful response from which no strategy extracts a valid
\* index, the first product is returned, and null for an empty list.
C5_FallbackFirstOrNull ==
    LET n == Len(products)
    IN  (/\ Parsed
         /\ StrategyIndex(LastLineMatch(ResponseText), n) = -1
         /\ StrategyIndex(ProductPhraseMatch(ResponseText), n) = -1
         /\ StrategyIndex(SingleDigitMatch(ResponseText), n) = -1
         /\ StrategyIndex(AnyNumberMatch(ResponseText), n) = -1) =>
            /\ selection.index = (IF n > 0 THEN 1 ELSE 0)
            /\ selection.method = (IF n > 0 THEN "FallbackFirst" ELSE "None")
            /\ ~selection.threw /\ ~selection.raised

\* a response without any digit, three products
C5_Witness ==
    /\ Parsed
    /\ ResponseText # <<>>
    /\ \A i \in 1..Len(ResponseText) : ~IsDigit(ResponseText[i])
    /\ Len(products) = 3
    /\ selection.index = 1
    /\ selection.method = "FallbackFirst"

(***************************************************************************)
(* Properties of the quantity adjustment.                                  *)
(***************************************************************************)
ChosenQuantity == products[selection.index].quantity

\* n is the least count with n * u >= R, for R = r.num / r.den
LeastSufficientCount(n, u, r) ==
    /\ n >= 1
    /\ n * u * r.den >= r.num
    /\ (n - 1) * u * r.den < r.num

\* C6: the purchase count computed from unit weight u and required weight r
\* is 1 when u = 0 or r = 0, and otherwise the least n with n * u >= r.
C6_LeastSufficientCount ==
    plan.located =>
        LET u == plan.unitWeight
            r == plan.requiredWeight
            n == plan.optimalQuantity
        IN  /\ (u = 0 \/ r.num = 0) => n = 1
            /\ (u > 0 /\ r.num > 0) => LeastSufficientCount(n, u, r)
            /\ plan.clicksNeeded = n - 1

\* a decimal requirement that the unit weight does not divide: 2.5 kg in
\* units of 300 g
C6_Witness ==
    /\ plan.located
    /\ plan.requiredWeight.den > 1
    /\ plan.unitWeight > 0
    /\ plan.optimalQuantity > 2
    /\ plan.optimalQuantity * plan.unitWeight * plan.requiredWeight.den
           > plan.requiredWeight.num

ExcludedWords == {ExcludeIngredients[k] : k \in 1..Len(ExcludeIngredients)}

\* text contains word at some position, letter case ignored
ContainsIgnoringCase(text, word) ==
    \E i \in 1..(Len(text) - Len(word) + 1) :
        \A j \in 1..Len(word) :
            ToLowerChar(text[i + j - 1]) = ToLowerChar(word[j])

\* the entries of the recipe's ingredient list that the claim keeps
KeptPositions ==
    {i \in 1..Len(rawIngredients) :
        /\ rawIngredients[i] # <<>>
        /\ \A word \in ExcludedWords : ~ContainsIgnoringCase(rawIngredients[i], word)}

ExtractionFiltered ==
    pc = "extracted" /\ extraction.stage = "filtered" /\ ~extraction.caught

\* C8: when extraction completes without error on a recipe with a non-empty
\* ingredient list, the returned list holds exactly the entries of that list
\* that are non-empty and contain no exclusion word as a case-insensitive
\* substring, in their original order.
C8_FilteredIngredients ==
    ExtractionFiltered =>
        LET kept == KeptPositions
            out == extraction.value
        IN  /\ Len(out) = Cardinality(kept)
            /\ \A i \in kept :
                   out[Cardinality({k \in kept : k <= i})] = rawIngredients[i]

C8_Witness ==
    /\ ExtractionFiltered
    /\ Len(rawIngredients) = 2
    /\ Len(extraction.value) = 1
    /\ ContainsIgnoringCase(rawIngredients[1], ExcludeIngredients[1])
    /\ ~Includes(rawIngredients[1], ExcludeIngredients[1])

\* some block, or some object-valued property of a block, is typed Recipe
HoldsRecipe(blocks) ==
    \E i \in 1..Len(blocks) :
        /\ blocks[i].kind = "object"
        /\ \/ \E t \in 1..Len(blocks[i].type.values) : blocks[i].type.values[t] = "Recipe"
           \/ \E k \in 1..Len(blocks[i].props) :
                  /\ blocks[i].props[k].kind = "object"
                  /\ blocks[i].props[k].type = StringType("Recipe")

\* C9: extractIngredientsFromJsonLd never raises to its caller, and returns
\* the empty list when the page has no JSON-LD blocks, when no Recipe object
\* is found, when the recipe has no usable ingredient list, and when any
\* step of the extraction throws.
C9_EmptyListOnFailure ==
    pc = "extracted" =>
        /\ ~extraction.raised
        /\ jsonLdData = <<>> => extraction.value = <<>>
        /\ ~HoldsRecipe(jsonLdData) => extraction.value = <<>>
        /\ rawIngredients = <<>> => extraction.value = <<>>
        /\ extraction.caught => extraction.value = <<>>

C9_Witness ==
    /\ pc = "extracted"
    /\ extraction.caught
    /\ extraction.stage = "close"
    /\ rawIngredients # <<>>
    /\ extraction.value = <<>>

(***************************************************************************)
(* processIngredientDescription.                                           *)
(***************************************************************************)
AllWhitespace(text) == \A i \in 1..Len(text) : IsSpace(text[i])

\* term is text with the whitespace at both ends, and nothing else, removed
IsTrimOf(term, text) ==
    /\ term # <<>> => ~IsSpace(term[1]) /\ ~IsSpace(term[Len(term)])
    /\ \E a \in 0..Len(text) :
           /\ a + Len(term) <= Len(text)
           /\ AllWhitespace(SubSeq(text, 1, a))
           /\ SubSeq(text, a + 1, a + Len(term)) = term
           /\ AllWhitespace(SubSeq(text, a + Len(term) + 1, Len(text)))

\* C10: processIngredientDescription never raises: it returns the
\* collaborator's response with surrounding whitespace removed when the call
\* succeeds, and the input ingredient text unchanged when it fails.
C10_TrimmedOrUnchanged ==
    pc = "normalized" =>
        /\ normalized.done
        /\ ~normalized.raised
        /\ chat = "resolved" => IsTrimOf(normalized.value, content)
        /\ chat \in {"rejected", "malformed"} => normalized.value = ingredient
        /\ chat \in {"resolved", "rejected", "malformed"}

C10_Witness ==
    /\ pc = "normalized"
    /\ chat = "resolved"
    /\ normalized.value # <<>>
    /\ Len(content) = Len(normalized.value) + 3

(***************************************************************************)
(* Weight parsing.                                                         *)
(***************************************************************************)
Grams(n) == [num |-> n, den |-> 1]

\* C11: parsing a requirement text is unit-invariant: a text stating n with
\* 'kg' or 'kilo' and a text stating 1000 * n with 'g' or 'gram' yield the
\* same gram value, 1000 * n, in any letter case and with or without white
\* space between number and unit.
C11_UnitInvariant ==
    pc = "parsed" =>
        \A n \in 0..MaxKilos, before \in Prefixes, gapK \in Gaps, kilo \in KiloUnits,
           gapG \in Gaps, gram \in GramUnits :
            texts = UnitPair(n, before, gapK, kilo, gapG, gram) =>
                /\ weights[1].required = Grams(1000 * n)
                /\ weights[2].required = weights[1].required

C11_Witness ==
    /\ pc = "parsed"
    /\ texts = UnitPair(2, <<>>, <<" ">>, <<"K", "i", "l", "o">>, <<>>, <<"G", "R", "A", "M">>)
    /\ weights[1].required = Grams(2000)
    /\ weights[2].required = Grams(2000)

(***************************************************************************)
(* selectBestProduct: the collaborator and the weight path.                *)
(***************************************************************************)
\* the requirement states a number, optional white space and a unit
StatesWeight(item) ==
    \E i \in 1..Len(item) :
        /\ IsDigit(item[i])
        /\ \E j \in (i + 1)..Len(item) :
               /\ \A k \in (i + 1)..(j - 1) : IsSpace(item[k])
               /\ ToLowerChar(item[j]) = "g"
                  \/ (j + 1 <= Len(item) /\ ToLowerChar(item[j]) = "k"
                        /\ ToLowerChar(item[j + 1]) = "g")
                  \/ (j + 3 <= Len(item)
                        /\ ToLowerCase(SubSeq(item, j, j + 3)) = <<"k", "i", "l", "o">>)

\* C12: when the requirement text contains a weight, selectBestProduct
\* returns its decision without ever calling the text-generation
\* collaborator; the collaborator is called only when no weight was detected.
C12_NoCollaboratorOnWeightPath ==
    /\ StatesWeight(shoppingListItem) =>
           /\ llmCalls = 0
           /\ chat = "none"
           /\ pc = "selected" => selection.method \in {"DeterministicWeight", "TypeError"}
    /\ (llmCalls > 0 \/ chat # "none") =>
           /\ ~StatesWeight(shoppingListItem)
           /\ ~RequirementWeightMatch(shoppingListItem).found

C12_Witness ==
    /\ pc = "selected"
    /\ StatesWeight(shoppingListItem)
    /\ selection.method = "DeterministicWeight"
    /\ selection.index > 0
    /\ llmCalls = 0

(***************************************************************************)
(* shopForGroceries.                                                       *)
(***************************************************************************)
\* the shopping list is complete
ListBuilt == listSource # "none" /\ queue = <<>>

\* the shopping list holds, entry by entry, what the normalizer made of list
NormalizedFrom(list) ==
    /\ origins = list
    /\ Len(shoppingList) = Len(list)
    /\ \A i \in 1..Len(list) :
           \/ shoppingList[i] = list[i]
           \/ \E text \in RunSearchTerms : IsTrimOf(shoppingList[i], text)

\* C13: the shopping list is the default list without a recipe URL; else
\* the normalized ingredients of the structured-data extractor when it
\* returns a non-empty sequence; else those of the fallback extractor when
\* it returns a non-empty sequence; else the default list.  The fallback
\* extractor is invoked only after the structured-data extractor returned
\* empty, the default list used only after both returned empty.
C13_ShoppingListSource ==
    /\ pc = "extractIngredientsFromUrl" =>
           extractorCalls = <<[extractor |-> "jsonld", result |-> <<>>]>>
    /\ ListBuilt =>
           LET calls == extractorCalls
           IN  IF ~recipeUrl
               THEN /\ calls = <<>>
                    /\ listSource = "default"
                    /\ shoppingList = ConfigShoppingList
               ELSE /\ Len(calls) >= 1
                    /\ calls[1].extractor = "jsonld"
                    /\ IF calls[1].result # <<>>
                       THEN /\ Len(calls) = 1
                            /\ listSource = "jsonld"
                            /\ NormalizedFrom(calls[1].result)
                       ELSE /\ Len(calls) = 2
                            /\ calls[2].extractor = "fallback"
                            /\ IF calls[2].result # <<>>
                               THEN /\ listSource = "fallback"
                                    /\ NormalizedFrom(calls[2].result)
                               ELSE /\ listSource = "default"
                                    /\ shoppingList = ConfigShoppingList

C13_Witness ==
    /\ pc = "itemLoop"
    /\ recipeUrl
    /\ listSource = "fallback"
    /\ Len(extractorCalls) = 2
    /\ Len(shoppingList) = 2
    /\ shoppingList[1] # origins[1]
    /\ shoppingList[2] = origins[2]

\* C15: a failure of the text-generation collaborator while an item is
\* processed never ends the run: the catch block of shopForGroceries is
\* reached only through a page operation, the items are taken up once each
\* in list order, and a run that finishes has taken up every item, the
\* items during which the collaborator failed included.
C15_CollaboratorFailureKeepsRun ==
    /\ runError \in {"none", "page"}
    /\ pc = "runCaught" <=> runError = "page"
    /\ Len(processed) <= Len(shoppingList)
    /\ \A k \in 1..Len(processed) : processed[k] = k - 1
    /\ degraded \subseteq {processed[k] : k \in 1..Len(processed)}
    /\ pc = "itemLoop" => itemIndex = Len(processed)
    /\ pc = "finished" => Len(processed) = Len(shoppingList)

C15_Witness ==
    /\ pc = "finished"
    /\ Len(processed) = 4
    /\ degraded = {0, 1}
    /\ Len(cartItems) = 2

\* C16: for a recipe ingredient whose raw text states a weight, the
\* requirement text handed to selectBestProduct and adjustProductQuantity
\* still carries that weight, whatever the normalizer returned.
C16_WeightReachesMatcher ==
    (/\ pc \in {"selectBestProduct", "adjustProductQuantity"}
     /\ listSource \in {"jsonld", "fallback"}
     /\ StatesWeight(origins[itemIndex + 1]))
        => /\ RequirementWeightMatch(shoppingListItem).found
           /\ RequestedWeight(shoppingListItem) = RequestedWeight(origins[itemIndex + 1])

(***************************************************************************)
(* Operations in flight.                                                   *)
(***************************************************************************)
\* the caller awaits a page operation or the collaborator: page.content() in
\* findProductsOnPage, ollama.chat, the counts of addProductToCart and
\* adjustProductQuantity, the click of the plus button
MainAwaits ==
    pc \in {"findProductsOnPage", "awaitChat", "addProductToCart",
            "adjustProductQuantity", "plusLoop"}

InFlight ==
    (IF MainAwaits THEN 1 ELSE 0) + (IF debugTask.status = "awaiting" THEN 1 ELSE 0)

\* C14: at every point at most one call to the collaborator or to a page
\* operation is in flight, with debug logging enabled as well as disabled.
C14_AtMostOneInFlight == InFlight <= 1

(***************************************************************************)
(* selectBestProduct: ties on the weight path.                             *)
(***************************************************************************)
\* the candidates among which the weight path chooses: the lightest of the
\* sufficient ones, or the heaviest of all when none is sufficient
BestByWeight ==
    LET r == Requested
        w == Weights
        all == 1..Len(products)
        sufficient == {i \in all : AtLeast(w[i], r)}
    IN  IF sufficient # {}
        THEN {i \in sufficient : \A j \in sufficient : w[i] <= w[j]}
        ELSE {i \in all : \A j \in all : w[j] <= w[i]}

\* C17: on the weight path ties are broken by input order: of several
\* sufficient candidates of equal minimum weight, and of several candidates
\* of equal maximum weight when none is sufficient (all weights 0 included),
\* the earliest in the list is returned.
C17_TiesByInputOrder ==
    (WeightPath /\ Len(products) > 0) =>
        LET best == BestByWeight
        IN  /\ selection.index \in best
            /\ \A i \in best : selection.index <= i

C17_Witness ==
    /\ WeightPath
    /\ Len(products) = 3
    /\ selection.index = 2
    /\ BestByWeight = {2, 3}
    /\ AtLeast(WeightOf(2), Requested)
    /\ WeightOf(1) > 0

\* C18: the weight assigned to a candidate is what the requirement parser
\* makes of its display volume: for every text the candidate weight equals
\* the requirement weight (0 for none), decimal values and the unit tokens
\* 'gram' and 'kilo' included.
C18_SameParserForCandidates ==
    pc = "parsed" =>
        \A i \in 1..Len(texts) :
            weights[i].unit * weights[i].required.den = weights[i].required.num

(***************************************************************************)
(* selectBestProduct on items that state no weight, answered with texts    *)
(* that carry a phrase next to other numbers.                              *)
(***************************************************************************)
\* lines of a response that names its choice in a phrase
PhraseLines ==
    {<<"o", "k">>, <<"F", "i", "n", "a", "l", " ", "c", "h", "o", "i", "c", "e", ":", " ", "2">>, <<"1", " ", "m", "a", "y", "b", "e", ".", " ", "F", "i", "n", "a", "l", " ", "c", "h", "o", "i", "c", "e", ":", " ", "2">>,
     <<"4", " ", "o", "r", " ", "P", "r", "o", "d", "u", "c", "t", " ", "2">>, <<"P", "r", "o", "d", "u", "c", "t", " ", "9", " ", "o", "r", " ", "P", "r", "o", "d", "u", "c", "t", " ", "1">>}

PhraseContents == {JoinLines(ls) : ls \in SeqUpTo(PhraseLines, MaxLines)}

\* products without a display volume
PhraseProducts == SeqUpTo({[displayVolume |-> <<>>, quantity |-> 0]}, MaxProducts)

InitPhrase ==
    /\ pc = "selectBestProduct"
    /\ products \in PhraseProducts
    /\ shoppingListItem \in PlainItems
    /\ chat = "none"
    /\ content = <<>>
    /\ selection = NoSelection
    /\ llmCalls = 0
    /\ CartIdle
    /\ RecipeIdle
    /\ NormalizeIdle
    /\ ParseIdle
    /\ DebugIdle
    /\ RunIdle

NextPhrase ==
    \/ SendChat
    \/ \E text \in PhraseContents : ChatResolves(text)
    \/ ChatRejects
    \/ ChatMalformed

SpecPhrase == InitPhrase /\ [][NextPhrase]_vars

\* /Final choice:\s*(\d+)/i anchored at position i
FinalChoiceAt(s, i) ==
    IF ~HasPrefixCI(s, i, <<"F", "i", "n", "a", "l", " ", "c", "h", "o", "i", "c", "e", ":">>) THEN NoMatch
    ELSE LET b == SpaceRunEnd(s, i + 13)
         IN  IF b <= Len(s) /\ IsDigit(s[b])
             THEN [found |-> TRUE, digits |-> SubSeq(s, b, DigitRunEnd(s, b) - 1)]
             ELSE NoMatch

\* the numbers N of the phrases "Product N" and "Final choice: N" of a text
PhraseNumbers(s) ==
    {Extracted(ProductPhraseAt(s, i)) :
        i \in {k \in 1..Len(s) : ProductPhraseAt(s, k).found}}
    \cup {Extracted(FinalChoiceAt(s, i)) :
            i \in {k \in 1..Len(s) : FinalChoiceAt(s, k).found}}

\* C19: when the last non-empty line gives no valid index and the text holds
\* a phrase "Product N" or "Final choice: N" with N in 1..|products|, the
\* phrase strategy selects the product such a phrase names, whatever integers
\* stand earlier in the text.
C19_PhraseSelected ==
    Parsed =>
        LET named == PhraseNumbers(ResponseText) \cap (1..Len(products))
        IN  (StrategyIndex(LastLineMatch(ResponseText), Len(products)) = -1
                /\ named # {}) =>
                /\ selection.method = "ProductPhrase"
                /\ selection.index \in named

\* the integer tokens of a text
IntegerTokens(s) ==
    {Extracted(AnyNumberAt(s, i)) : i \in {k \in 1..Len(s) : AnyNumberAt(s, k).found}}

\* C20: the first product is returned by default only when every strategy
\* fails: when some integer token of the response is in 1..|products|, the
\* product returned is one an integer token of the text names, also when the
\* first integer token is out of range.
C20_FallbackOnlyWithoutValidToken ==
    Parsed =>
        LET tokens == IntegerTokens(ResponseText)
        IN  (tokens \cap (1..Len(products)) # {}) =>
                /\ selection.method # "FallbackFirst"
                /\ selection.index \in tokens

(***************************************************************************)
(* extractIngredientsFromJsonLd on pages whose blocks carry Recipe objects *)
(* at the top level, one level deep and two levels deep.                   *)
(***************************************************************************)
MaxBlocks == 2

\* a block that is no Recipe, with the given object-valued properties
OuterBlock(name, props) ==
    JsonObject(StringType("WebPage"), name, AbsentField, AbsentField, props)

NestedBlock(type, name, text) ==
    JsonObject(type, name, ArrayField(<<text>>), AbsentField, <<>>)

FindBlocks ==
    {OtherBlock, JsonNull,
     JsonObject(StringType("Recipe"), "top", ArrayField(<<<<"m", "j", "ö", "l">>>>), AbsentField, <<>>),
     JsonObject(ArrayType(<<"Thing", "Recipe">>), "multi", ArrayField(<<>>),
                ArrayField(<<<<"o", "s", "t">>>>), <<>>),
     JsonObject(StringType("Recipe"), "alt", StringField(<<"m", "j", "ö", "l">>),
                ArrayField(<<<<"2", " ", "ä", "g", "g">>>>), <<>>),
     JsonObject(StringType("Recipe"), "bare", AbsentField, StringField(<<"m", "j", "ö", "l">>), <<>>),
     OuterBlock("outer", <<JsonArray, NestedBlock(StringType("Recipe"), "nested", <<"r", "i", "s">>),
                           NestedBlock(StringType("Recipe"), "second", <<"k", "o", "r", "v">>)>>),
     OuterBlock("outerMulti",
                <<NestedBlock(ArrayType(<<"Recipe">>), "nestedMulti", <<"r", "i", "s">>)>>),
     OuterBlock("outerDeep",
                <<OuterBlock("middle",
                             <<NestedBlock(StringType("Recipe"), "deep", <<"r", "i", "s">>)>>)>>)}

FindDocuments == SeqUpTo(FindBlocks, MaxBlocks)

InitFind == InitJsonLd

NextFind ==
    \/ LaunchResolves
    \/ LaunchRejects
    \/ ContextResolves
    \/ ContextRejects
    \/ \E blocks \in FindDocuments : PageEvaluated(blocks)
    \/ PageRejects
    \/ CloseResolves
    \/ CloseRejects
    \/ \E closed \in BOOLEAN : CatchCloseDone(closed)

SpecFind == InitFind /\ [][NextFind]_vars

\* the type discriminator of a value equals 'Recipe' or is a list holding it
HasRecipeType(value) ==
    /\ value.kind = "object"
    /\ \E t \in 1..Len(value.type.values) : value.type.values[t] = "Recipe"

\* positions of the blocks typed Recipe
TopLevelRecipes == {i \in 1..Len(jsonLdData) : HasRecipeType(jsonLdData[i])}

\* findRecipeData has been called and has not thrown on a null block
FindReturned == jsonLdData # <<>> /\ ~recipeData.threw

\* C21: findRecipeData returns the first block, in document order, whose
\* @type equals 'Recipe' or is a list containing 'Recipe'; a top-level match
\* takes precedence over every nested Recipe object, also over one nested in
\* an earlier block.
C21_FirstTopLevelRecipe ==
    (FindReturned /\ TopLevelRecipes # {}) =>
        LET first == CHOOSE i \in TopLevelRecipes : \A h \in TopLevelRecipes : i <= h
        IN  /\ recipeData.found
            /\ recipeData.recipe = jsonLdData[first]

\* a Recipe nested in the first block, a top-level Recipe in the second
C21_Witness ==
    /\ FindReturned
    /\ Len(jsonLdData) = 2
    /\ jsonLdData[1].name = "outer"
    /\ recipeData.found
    /\ recipeData.recipe = jsonLdData[2]
    /\ recipeData.recipe.name = "top"

\* the objects typed Recipe exactly one level below a block
NestedRecipes ==
    {pos \in (1..Len(jsonLdData)) \X (1..3) :
        /\ jsonLdData[pos[1]].kind = "object"
        /\ pos[2] <= Len(jsonLdData[pos[1]].props)
        /\ HasRecipeType(jsonLdData[pos[1]].props[pos[2]])}

\* C22: when no top-level block is a Recipe, findRecipeData returns an
\* object typed Recipe (by a single value or by a list, as at the top level)
\* that is the value of a property of some block, when there is one, and
\* 'not found' only when there is none; an object two or more levels deep is
\* never returned.
C22_NestedRecipeOneLevelDeep ==
    (FindReturned /\ TopLevelRecipes = {}) =>
        /\ NestedRecipes # {} =>
               /\ recipeData.found
               /\ \E pos \in NestedRecipes :
                      recipeData.recipe = jsonLdData[pos[1]].props[pos[2]]
        /\ NestedRecipes = {} => ~recipeData.found

\* C23: extractIngredients returns recipeIngredient whenever it is a list,
\* an empty one included; ingredients only when recipeIngredient is absent or
\* no list and ingredients is a list; the empty list when neither is a list.
C23_PrimaryThenSecondaryField ==
    (FindReturned /\ recipeData.found) =>
        LET primary == recipeData.recipe.recipeIngredient
            secondary == recipeData.recipe.ingredients
        IN  /\ primary.kind = "array" => rawIngredients = primary.items
            /\ (primary.kind # "array" /\ secondary.kind = "array") =>
                   rawIngredients = secondary.items
            /\ (primary.kind # "array" /\ secondary.kind # "array") =>
                   rawIngredients = <<>>

\* recipeIngredient is [] while ingredients holds an entry: [] is returned
C23_Witness ==
    /\ FindReturned
    /\ recipeData.found
    /\ recipeData.recipe.recipeIngredient = ArrayField(<<>>)
    /\ recipeData.recipe.ingredients.kind = "array"
    /\ recipeData.recipe.ingredients.items # <<>>
    /\ rawIngredients = <<>>
    /\ extraction.stage = "noIngredients"

(***************************************************************************)
(* processSearchResults on items whose number is followed by a word, by a  *)
(* unit token or by nothing of the kind.                                   *)
(***************************************************************************)
WordItems == {<<"b", "u", "r", "k">>, <<"1", " ", "k", "i", "w", "i">>, <<"2", " ", "k", "g">>, <<"2", " ", "g", "u", "r", "k", "o", "r">>}

InitWord ==
    /\ pc = "findProductsOnPage"
    /\ products = <<>>
    /\ shoppingListItem \in WordItems
    /\ chat = "none"
    /\ content = <<>>
    /\ selection = NoSelection
    /\ llmCalls = 0
    /\ CartIdle
    /\ RecipeIdle
    /\ NormalizeIdle
    /\ ParseIdle
    /\ DebugIdle
    /\ RunIdle

NextWord ==
    \/ \E prods \in RunProducts : FindProductsOnPage(prods)
    \/ SelectByWeight
    \/ SendChat
    \/ \E text \in RunResponses : ChatResolves(text)
    \/ ChatRejects
    \/ ChatMalformed
    \/ SelectionReturned
    \/ AddProductToCart
    \/ AdjustProductQuantity
    \/ ProductAdded

SpecWord == InitWord /\ [][NextWord]_vars

IsLetter(c) ==
    \E i \in DOMAIN LowerLetters : LowerLetters[i] = c \/ UpperLetters[i] = c

UnitTokens == {<<"g">>, <<"g", "r", "a", "m">>, <<"k", "g">>, <<"k", "i", "l", "o">>}

\* one of the unit tokens stands at position j as a word of its own
UnitTokenAt(s, j) ==
    \E u \in UnitTokens :
        /\ HasPrefixCI(s, j, u)
        /\ (j + Len(u) > Len(s) \/ ~IsLetter(s[j + Len(u)]))

\* the text holds a number followed, after optional whitespace, by a unit token
StatesUnitToken(s) ==
    \E i \in 1..Len(s) :
        /\ IsDigit(s[i])
        /\ LET j == SpaceRunEnd(s, i + 1)
           IN  j <= Len(s) /\ UnitTokenAt(s, j)

\* C24: a weight requirement is detected exactly when the item holds a number
\* followed, after optional whitespace, by one of the unit tokens g, gram, kg,
\* kilo; a number followed by a longer word that only begins with g or kg
\* ("2 gurkor") states no weight: the collaborator arbitrates and the purchase
\* count is 1.
C24_WeightOnlyWithUnitToken ==
    Returned =>
        /\ RequirementWeightMatch(shoppingListItem).found
               <=> StatesUnitToken(shoppingListItem)
        /\ ~StatesUnitToken(shoppingListItem) =>
               /\ llmCalls = 1
               /\ selection.method # "DeterministicWeight"
               /\ pc = "adjusted" => products[selection.index].quantity = 1

\* C25: for an empty product list selectBestProduct returns null without
\* raising, whether or not the item states a weight; for a non-empty list and
\* an item that states a weight it returns one of the products.
C25_NullOnlyForEmptyList ==
    pc = "selected" =>
        /\ ~selection.raised
        /\ Len(products) = 0 => selection.index = 0
        /\ (Len(products) > 0 /\ RequirementWeightMatch(shoppingListItem).found) =>
               /\ selection.index \in 1..Len(products)
               /\ selection.method = "DeterministicWeight"

\* an empty list and an item that states a weight: reading element 0 of the
\* sorted list throws, and the catch block returns null
C25_Witness ==
    /\ pc = "selected"
    /\ products = <<>>
    /\ RequirementWeightMatch(shoppingListItem).found
    /\ selection.index = 0
    /\ selection.threw
    /\ ~selection.raised

\* the shopping list was made from the ingredients of a recipe
FromRecipe == listSource \in {"jsonld", "fallback"}

\* C26: for each ingredient extracted from a recipe the normalizer is applied
\* exactly once, giving one search term; the shopping list has one entry per
\* extracted ingredient, in extraction order; and the text typed into the
\* site search for the ingredient is exactly that search term.
C26_OneSearchTermPerIngredient ==
    (FromRecipe /\ ListBuilt) =>
        /\ origins = extractorCalls[Len(extractorCalls)].result
        /\ Len(shoppingList) = Len(origins)
        /\ ~(caller = "extractSearchTerm"
                /\ pc \in {"processIngredientDescription", "awaitNormalize", "normalized"})
        /\ pc = "searchForProduct" => searchTerm = shoppingList[itemIndex + 1]

\* no product has been selected and bought yet for the current item
BeforeBuyClick ==
    pc \in {"findProductsOnPage", "selectBestProduct", "awaitChat", "selected",
            "addProductToCart"}

\* C27: every scraped product starts with quantity 0; no quantity changes
\* before a product was selected and its buy button clicked, and the quantity
\* of every product other than the selected one stays 0.
C27_QuantityOnlyOfChosenProduct ==
    /\ BeforeBuyClick => \A i \in 1..Len(products) : products[i].quantity = 0
    /\ \A i \in 1..Len(products) :
           products[i].quantity # 0 => (Returned /\ i = selection.index)

\* the second of two products was bought for a later item of the list
C27_Witness ==
    /\ pc = "adjusted"
    /\ itemIndex > 0
    /\ Len(products) = 2
    /\ selection.index = 2
    /\ products[2].quantity = 1
    /\ products[1].quantity = 0

\* processSearchResults has returned the product it put in the cart
ItemCompleted == pc = "itemDone" /\ added # 0

\* C28: for an item with weight requirement R > 0 whose chosen product has
\* unit weight u > 0 and whose plus button is found, when processSearchResults
\* completes quantity * u >= R and (quantity - 1) * u < R; whenever some
\* product weighed at least R, the quantity is 1 and no increase is requested.
C28_EndToEndSufficiency ==
    (ItemCompleted /\ plan.located) =>
        LET r == Requested
            u == WeightOf(added)
            quantity == products[added].quantity
        IN  (r.num > 0 /\ u > 0) =>
                /\ quantity * u * r.den >= r.num
                /\ (quantity - 1) * u * r.den < r.num
                /\ (\E i \in 1..Len(products) : AtLeast(WeightOf(i), r)) =>
                       quantity = 1 /\ plusClicks = 0

\* no product is heavy enough: the heaviest is bought more than once
C28_Witness ==
    /\ ItemCompleted
    /\ plan.located
    /\ Len(products) >= 2
    /\ Requested.num > 0
    /\ WeightOf(added) > 0
    /\ \A i \in 1..Len(products) : ~AtLeast(WeightOf(i), Requested)
    /\ products[added].quantity >= 2
    /\ plusClicks = products[added].quantity - 1

\* C29: selectBestProduct returns null or one of the elements of its input
\* list, and on every path leaves the list as it was in length, order and
\* element contents; the sorts of the weight path act on derived lists.
C29_InputListUntouched ==
    /\ [](pc = "selected" => selection.index \in 0..Len(products))
    /\ [][(pc \in {"selectBestProduct", "awaitChat"}) => (products' = products)]_vars

\* the weight path returned the third of three products that do not stand in
\* ascending order of weight
C29_Witness ==
    /\ pc = "selected"
    /\ selection.method = "DeterministicWeight"
    /\ Len(products) = 3
    /\ selection.index = 3
    /\ WeightOf(1) > WeightOf(2)
    /\ WeightOf(2) > WeightOf(3)

\* C30: a product is appended to cartItems only after the buy click for it
\* was issued; at most one product is appended per shopping-list item, in
\* item order; every product in cartItems has quantity >= 1; an item with no
\* products on the page, no selection or no buy button appends nothing.
C30_CartInvariant ==
    /\ [](/\ \A k \in 1..Len(cartItems) :
                /\ cartItems[k].quantity >= 1
                /\ cartItems[k].product >= 1
                /\ cartItems[k].item < itemIndex
          /\ \A k \in 1..(Len(cartItems) - 1) : cartItems[k].item < cartItems[k + 1].item
          /\ pc = "itemDone" =>
                 ((Len(products) = 0 \/ selection.index = 0
                     \/ products[selection.index].quantity = 0) => added = 0))
    /\ [][(cartItems' # cartItems) =>
              (/\ pc = "itemDone"
               /\ added # 0
               /\ added = selection.index
               /\ products[added].quantity >= 1
               /\ Len(cartItems') = Len(cartItems) + 1
               /\ cartItems'[Len(cartItems')].item = itemIndex)]_vars

\* the first and the third item of the list are in the cart, the second is
\* not, and one of the products was bought more than once
C30_Witness ==
    /\ pc = "finished"
    /\ Len(cartItems) = 2
    /\ cartItems[1].item = 0
    /\ cartItems[2].item = 2
    /\ cartItems[1].quantity >= 2

====
